---- MODULE Spec2Model ----
(***************************************************************************)
(* Silo monitor: the aggregation service (Express app, configuration      *)
(* management) and the edge agent (ESP32 sketch: sensor evaluation, alarm *)
(* hysteresis, configuration pull), both in src/server/app.js.            *)
(*                                                                         *)
(* Numbers: configuration values, temperatures and humidities are whole   *)
(* units; a risk score is kept in tenths of a percent (the 1.5 factor of  *)
(* calculateSpoilageRisk yields halves).                                  *)
(***************************************************************************)
EXTENDS Integers, Sequences, FiniteSets, TLC

VARIABLES
    \* ---- aggregation service ----
    CONFIG,          \* let CONFIG: the in-force configuration document
    THRESHOLDS,      \* const THRESHOLDS: the object the analytics read
    configFile,      \* content of config.json (Absent when there is none)
    res,             \* the last HTTP response of the configuration API
    trendsPending,   \* number of /api/trends queries whose callback has not run
    trendsRes,       \* the last HTTP response of /api/trends
    \* ---- deepMerge applied to arbitrary documents ----
    mTarget, mSource, mOutput, mDone,
    \* ---- the analytics functions applied to arbitrary arguments ----
    fCall,           \* the function and its arguments
    fRet,            \* its return value (NotCalled before the call)
    \* ---- edge agent ----
    edge,            \* the sketch's global variables, by name
    millis,          \* millis(): the clock (loop passes in Spec, ms in SpecLoop)
    call,            \* the last function called from loop(): its inputs and result
    postCount,       \* number of http.POST requests made so far
    passes,          \* number of steps of loop() taken (SpecLoop)
    readings         \* the readings updateHistory has stored so far, oldest first,
                     \* each with the HISTORY_SIZE in force (SpecHistory)

trendsVars == <<trendsPending, trendsRes>>
serverVars == <<CONFIG, THRESHOLDS, configFile, res, trendsPending, trendsRes>>
mergeVars == <<mTarget, mSource, mOutput, mDone>>
analyticsVars == <<fCall, fRet>>
edgeVars == <<edge, millis, call, postCount, passes, readings>>
vars == <<CONFIG, THRESHOLDS, configFile, res, trendsPending, trendsRes, mTarget, mSource, mOutput, mDone,
          fCall, fRet,
          edge, millis, call, postCount, passes, readings>>

(***************************************************************************)
(* JSON / JavaScript values, tagged by type.  A string is the sequence of *)
(* its characters; an object is a function from its keys to values.       *)
(***************************************************************************)
Num(n) == [t |-> "num", v |-> n]
Bool(b) == [t |-> "bool", v |-> b]
Str(s) == [t |-> "str", v |-> s]
Obj(f) == [t |-> "obj", v |-> f]
Null == [t |-> "null"]
Undefined == [t |-> "undef"]
EmptyObj == Obj(<<>>)

\* function isObject(item): item && typeof item === 'object' && !Array.isArray(item)
isObject(item) == item.t = "obj"

\* obj[key]; a missing key, or a key of a number, boolean or string, is undefined
Get(obj, key) ==
    IF obj.t = "obj" /\ key \in DOMAIN obj.v THEN obj.v[key] ELSE Undefined

\* JavaScript truthiness, as in if (x) and x && y
Truthy(x) ==
    CASE x.t = "obj" -> TRUE
      [] x.t = "num" -> x.v # 0
      [] x.t = "bool" -> x.v
      [] x.t = "str" -> Len(x.v) > 0
      [] OTHER -> FALSE

\* ToNumber(x) is a number (not NaN): numbers, booleans, null, the empty string
Numeric(x) == x.t \in {"num", "bool", "null"} \/ (x.t = "str" /\ Len(x.v) = 0)

NumOf(x) ==
    CASE x.t = "num" -> x.v
      [] x.t = "bool" -> IF x.v THEN 1 ELSE 0
      [] OTHER -> 0

\* a >= b, a < b, a > b on two values that are not both strings: a comparison
\* with NaN (undefined, an object, a non-numeric string) is false
JsGE(a, b) == Numeric(a) /\ Numeric(b) /\ NumOf(a) >= NumOf(b)
JsLT(a, b) == Numeric(a) /\ Numeric(b) /\ NumOf(a) < NumOf(b)
JsGT(a, b) == Numeric(a) /\ Numeric(b) /\ NumOf(a) > NumOf(b)

\* the own enumerable properties Object.assign copies from src: the keys of an
\* object, the indexed characters of a string, nothing of any other value
OwnProps(src) ==
    CASE src.t = "obj" -> src.v
      [] src.t = "str" ->
            [k \in {ToString(i - 1) : i \in 1..Len(src.v)} |->
                Str(<<src.v[CHOOSE i \in 1..Len(src.v) : ToString(i - 1) = k]>>)]
      [] OTHER -> <<>>

\* Object.assign(target, src) for an object target
ObjectAssign(target, src) ==
    IF target.t # "obj" THEN target
    ELSE LET p == OwnProps(src) IN
         Obj([k \in DOMAIN target.v \cup DOMAIN p |->
                IF k \in DOMAIN p THEN p[k] ELSE target.v[k]])

(***************************************************************************)
(* Configuration management of the aggregation service                    *)
(***************************************************************************)
\* getDefaultConfig(): the thresholds, alerts and dataCollection sections
getDefaultConfig ==
    Obj([thresholds |-> Obj([
            temperature |-> Obj([idealMin |-> Num(4), idealMax |-> Num(8),
                                 warningMin |-> Num(3), warningMax |-> Num(12),
                                 criticalMin |-> Num(2), criticalMax |-> Num(15),
                                 unit |-> Str(<<"d", "C">>)]),
            humidity |-> Obj([idealMin |-> Num(90), idealMax |-> Num(95),
                              warningMin |-> Num(85), warningMax |-> Num(98),
                              criticalMin |-> Num(80), criticalMax |-> Num(100),
                              unit |-> Str(<<"%">>)]),
            airQuality |-> Obj([good |-> Num(150), moderate |-> Num(300),
                                poor |-> Num(500), veryPoor |-> Num(600),
                                unit |-> Str(<<"M", "Q", "1", "3", "5">>)]),
            spoilageRisk |-> Obj([low |-> Num(20), medium |-> Num(40),
                                  high |-> Num(70), critical |-> Num(85),
                                  unit |-> Str(<<"%">>)]),
            condensation |-> Obj([dewPointDifference |-> Num(2),
                                  unit |-> Str(<<"d", "C">>)])]),
         alerts |-> Obj([buzzerEnabled |-> Bool(FALSE),
                         buzzerDuration |-> Num(1000),
                         criticalRiskThreshold |-> Num(70),
                         muteAfterAcknowledge |-> Bool(FALSE)]),
         dataCollection |-> Obj([sampleInterval |-> Num(30000),
                                 autoRefreshInterval |-> Num(5000),
                                 dataRetentionDays |-> Num(30),
                                 historySize |-> Num(10)])])

\* function deepMerge(target, source)
RECURSIVE deepMerge(_, _)
deepMerge(target, source) ==
    LET output == ObjectAssign(EmptyObj, target) IN
    IF isObject(target) /\ isObject(source)
    THEN Obj([key \in DOMAIN output.v \cup DOMAIN source.v |->
            IF key \in DOMAIN source.v
            THEN IF isObject(source.v[key])
                 THEN IF key \notin DOMAIN target.v
                      THEN source.v[key]
                      ELSE deepMerge(target.v[key], source.v[key])
                 ELSE source.v[key]
            ELSE output.v[key]])
    ELSE output

\* ---- the checks of validateConfig, one per errors.push ----
TempSection(config) == Get(Get(config, "thresholds"), "temperature")
HumSection(config) == Get(Get(config, "thresholds"), "humidity")
RiskSection(config) == Get(Get(config, "thresholds"), "spoilageRisk")
AlertsSection(config) == Get(config, "alerts")
DataSection(config) == Get(config, "dataCollection")

TempIdealError(config) ==
    /\ Truthy(Get(config, "thresholds")) /\ Truthy(TempSection(config))
    /\ JsGE(Get(TempSection(config), "idealMin"), Get(TempSection(config), "idealMax"))

TempCriticalError(config) ==
    /\ Truthy(Get(config, "thresholds")) /\ Truthy(TempSection(config))
    /\ JsGE(Get(TempSection(config), "criticalMin"), Get(TempSection(config), "criticalMax"))

HumIdealError(config) ==
    /\ Truthy(Get(config, "thresholds")) /\ Truthy(HumSection(config))
    /\ JsGE(Get(HumSection(config), "idealMin"), Get(HumSection(config), "idealMax"))

HumRangeError(config) ==
    /\ Truthy(Get(config, "thresholds")) /\ Truthy(HumSection(config))
    /\ \/ JsLT(Get(HumSection(config), "idealMin"), Num(0))
       \/ JsGT(Get(HumSection(config), "idealMax"), Num(100))

RiskOrderError(config) ==
    /\ Truthy(Get(config, "thresholds")) /\ Truthy(RiskSection(config))
    /\ \/ JsGE(Get(RiskSection(config), "low"), Get(RiskSection(config), "medium"))
       \/ JsGE(Get(RiskSection(config), "medium"), Get(RiskSection(config), "high"))

BuzzerDurationError(config) ==
    /\ Truthy(AlertsSection(config))
    /\ Truthy(Get(AlertsSection(config), "buzzerDuration"))
    /\ JsLT(Get(AlertsSection(config), "buzzerDuration"), Num(0))

CriticalRiskError(config) ==
    /\ Truthy(AlertsSection(config))
    /\ Truthy(Get(AlertsSection(config), "criticalRiskThreshold"))
    /\ \/ JsLT(Get(AlertsSection(config), "criticalRiskThreshold"), Num(0))
       \/ JsGT(Get(AlertsSection(config), "criticalRiskThreshold"), Num(100))

SampleIntervalError(config) ==
    /\ Truthy(DataSection(config))
    /\ Truthy(Get(DataSection(config), "sampleInterval"))
    /\ JsLT(Get(DataSection(config), "sampleInterval"), Num(1000))

AutoRefreshError(config) ==
    /\ Truthy(DataSection(config))
    /\ Truthy(Get(DataSection(config), "autoRefreshInterval"))
    /\ JsLT(Get(DataSection(config), "autoRefreshInterval"), Num(1000))

RetentionError(config) ==
    /\ Truthy(DataSection(config))
    /\ Truthy(Get(DataSection(config), "dataRetentionDays"))
    /\ JsLT(Get(DataSection(config), "dataRetentionDays"), Num(1))

\* errors.push(message) when the check fails
Push(failed, message) == IF failed THEN <<message>> ELSE <<>>

validateConfigFirstOnly(config) ==
    LET errors ==
            Push(TempIdealError(config), "Temperature idealMin must be less than idealMax")
         \o Push(TempCriticalError(config), "Temperature criticalMin must be less than criticalMax")
         \o Push(HumIdealError(config), "Humidity idealMin must be less than idealMax")
         \o Push(HumRangeError(config), "Humidity values must be between 0 and 100")
         \o Push(RiskOrderError(config), "Spoilage risk thresholds must be in ascending order")
         \o Push(BuzzerDurationError(config), "Buzzer duration must be positive")
         \o Push(CriticalRiskError(config), "Critical risk threshold must be between 0 and 100")
         \o Push(SampleIntervalError(config), "Sample interval must be at least 1000ms")
         \o Push(AutoRefreshError(config), "Auto refresh interval must be at least 1000ms")
         \o Push(RetentionError(config), "Data retention must be at least 1 day")
    IN [valid |-> Len(errors) = 0,
        errors |-> IF Len(errors) = 0 THEN errors ELSE <<Head(errors)>>]

\* function validateConfig(config)
validateConfig(config) ==
    LET errors ==
            Push(TempIdealError(config), "Temperature idealMin must be less than idealMax")
         \o Push(TempCriticalError(config), "Temperature criticalMin must be less than criticalMax")
         \o Push(HumIdealError(config), "Humidity idealMin must be less than idealMax")
         \o Push(HumRangeError(config), "Humidity values must be between 0 and 100")
         \o Push(RiskOrderError(config), "Spoilage risk thresholds must be in ascending order")
         \o Push(BuzzerDurationError(config), "Buzzer duration must be positive")
         \o Push(CriticalRiskError(config), "Critical risk threshold must be between 0 and 100")
         \o Push(SampleIntervalError(config), "Sample interval must be at least 1000ms")
         \o Push(AutoRefreshError(config), "Auto refresh interval must be at least 1000ms")
         \o Push(RetentionError(config), "Data retention must be at least 1 day")
    IN [valid |-> Len(errors) = 0, errors |-> errors]

\* config.json: no file, or the document JSON.stringify wrote.  JSON.stringify
\* followed by JSON.parse gives back a document of numbers, booleans, strings,
\* null and objects unchanged, so the file is kept as the document itself.
Absent == [t |-> "absent"]

NoResponse == [op |-> "none", status |-> 0, details |-> <<>>, req |-> Null]

\* app.put("/api/config") copying only the temperature section to THRESHOLDS
PutConfigTemperatureOnly(updates, writeOk) ==
    LET updatedConfig == deepMerge(CONFIG, updates)
        validation == validateConfig(updatedConfig)
    IN IF ~validation.valid
       THEN /\ res' = [op |-> "PUT", status |-> 400,
                       details |-> validation.errors, req |-> updates]
            /\ UNCHANGED <<CONFIG, THRESHOLDS, configFile>>
       ELSE IF writeOk
            THEN \* saveConfig: write the file, CONFIG = newConfig
                 /\ configFile' = updatedConfig
                 /\ CONFIG' = updatedConfig
                 /\ THRESHOLDS' = ObjectAssign(THRESHOLDS,
                        Obj([temperature |-> TempSection(updatedConfig)]))
                 /\ res' = [op |-> "PUT", status |-> 200, details |-> <<>>, req |-> updates]
            ELSE /\ res' = [op |-> "PUT", status |-> 500, details |-> <<>>, req |-> updates]
                 /\ UNCHANGED <<CONFIG, THRESHOLDS, configFile>>

\* app.put("/api/config"): updates is req.body, writeOk whether
\* fs.writeFileSync succeeds in saveConfig
PutConfig(updates, writeOk) ==
    LET updatedConfig == deepMerge(CONFIG, updates)
        validation == validateConfig(updatedConfig)
    IN IF ~validation.valid
       THEN /\ res' = [op |-> "PUT", status |-> 400,
                       details |-> validation.errors, req |-> updates]
            /\ UNCHANGED <<CONFIG, THRESHOLDS, configFile>>
       ELSE IF writeOk
            THEN \* saveConfig: write the file, CONFIG = newConfig
                 /\ configFile' = updatedConfig
                 /\ CONFIG' = updatedConfig
                 /\ THRESHOLDS' = ObjectAssign(THRESHOLDS, Get(updatedConfig, "thresholds"))
                 /\ res' = [op |-> "PUT", status |-> 200, details |-> <<>>, req |-> updates]
            ELSE /\ res' = [op |-> "PUT", status |-> 500, details |-> <<>>, req |-> updates]
                 /\ UNCHANGED <<CONFIG, THRESHOLDS, configFile>>

\* app.post("/api/config/reset")
PostConfigReset(writeOk) ==
    LET defaultConfig == getDefaultConfig IN
    IF writeOk
    THEN /\ configFile' = defaultConfig
         /\ CONFIG' = defaultConfig
         /\ THRESHOLDS' = ObjectAssign(THRESHOLDS, Get(defaultConfig, "thresholds"))
         /\ res' = [op |-> "RESET", status |-> 200, details |-> <<>>, req |-> Null]
    ELSE /\ res' = [op |-> "RESET", status |-> 500, details |-> <<>>, req |-> Null]
         /\ UNCHANGED <<CONFIG, THRESHOLDS, configFile>>

\* process start: loadConfig() and const THRESHOLDS = CONFIG.thresholds || defaults
loadConfig ==
    LET loaded == IF configFile = Absent THEN getDefaultConfig ELSE configFile IN
    /\ CONFIG' = loaded
    /\ THRESHOLDS' = IF Truthy(Get(loaded, "thresholds"))
                     THEN Get(loaded, "thresholds")
                     ELSE Get(getDefaultConfig, "thresholds")
    /\ res' = [op |-> "START", status |-> 0, details |-> <<>>, req |-> Null]
    /\ UNCHANGED configFile

\* ---- the partial updates sent to PUT /api/config ----
UpdIdealMin == Obj([thresholds |-> Obj([temperature |-> Obj([idealMin |-> Num(9)])])])
UpdManyErrors ==
    Obj([thresholds |-> Obj([temperature |-> Obj([idealMin |-> Num(20), criticalMin |-> Num(16)]),
                             humidity |-> Obj([idealMax |-> Num(101)])]),
         alerts |-> Obj([criticalRiskThreshold |-> Num(150)]),
         dataCollection |-> Obj([sampleInterval |-> Num(500)])])
UpdWarningMin == Obj([thresholds |-> Obj([temperature |-> Obj([warningMin |-> Num(20)])])])
UpdRiskHigh == Obj([thresholds |-> Obj([spoilageRisk |-> Obj([high |-> Num(60)])])])
UpdAlerts == Obj([alerts |-> Obj([criticalRiskThreshold |-> Num(10), buzzerEnabled |-> Bool(TRUE)])])
UpdHistory == Obj([dataCollection |-> Obj([historySize |-> Num(3), sampleInterval |-> Num(1000)])])
UpdNoAlerts == Obj([alerts |-> Null])
\* a body that adds a threshold section the defaults do not have
UpdExtraSection == Obj([thresholds |-> Obj([co2 |-> Obj([high |-> Num(1000)])])])

Updates == {UpdIdealMin, UpdManyErrors, UpdWarningMin, UpdRiskHigh, UpdAlerts,
            UpdHistory, UpdNoAlerts, UpdExtraSection}

(***************************************************************************)
(* Analytics of the aggregation service                                   *)
(***************************************************************************)
\* a trend value or slope: the quotient num / den of two integers, den > 0
Quotient(num, den) == [num |-> num, den |-> den]
\* value > tenths / 10 and value < tenths / 10
GreaterThan(value, tenths) == 10 * value.num > tenths * value.den
LessThan(value, tenths) == 10 * value.num < tenths * value.den

RECURSIVE Sum(_)
Sum(data) == IF data = <<>> THEN 0 ELSE data[1] + Sum(Tail(data))

\* function calculateSimpleTrend(data): avgSecond - avgFirst
calculateSimpleTrend(data) ==
    IF Len(data) < 2 THEN Quotient(0, 1)
    ELSE LET half == Len(data) \div 2
             firstHalf == SubSeq(data, 1, half)
             secondHalf == SubSeq(data, half + 1, Len(data))
         IN Quotient(Sum(secondHalf) * Len(firstHalf) - Sum(firstHalf) * Len(secondHalf),
                     Len(firstHalf) * Len(secondHalf))

\* function getTrendLabel(trendValue)
getTrendLabel(trendValue) ==
    IF GreaterThan(trendValue, 10) THEN "RISING_RAPIDLY"
    ELSE IF GreaterThan(trendValue, 3) THEN "RISING"
    ELSE IF LessThan(trendValue, -10) THEN "FALLING_RAPIDLY"
    ELSE IF LessThan(trendValue, -3) THEN "FALLING"
    ELSE "STABLE"

\* const priorityOrder = { 'CRITICAL': 0, 'HIGH': 1, 'MEDIUM': 2, 'LOW': 3 }
priorityOrder(priority) ==
    CASE priority = "CRITICAL" -> 0 [] priority = "HIGH" -> 1
      [] priority = "MEDIUM" -> 2 [] priority = "LOW" -> 3

\* recommendations.sort((a, b) => priorityOrder[a.priority] - priorityOrder[b.priority])
\* where equal entries change places
RECURSIVE sortUnstable(_)
sortUnstable(recommendations) ==
    IF recommendations = <<>> THEN <<>>
    ELSE LET n == Len(recommendations)
             last == recommendations[n]
             front == sortUnstable(SubSeq(recommendations, 1, n - 1))
             k == Cardinality({i \in 1..(n - 1) :
                     priorityOrder(front[i].priority) - priorityOrder(last.priority) < 0})
         IN SubSeq(front, 1, k) \o <<last>> \o SubSeq(front, k + 1, n - 1)

\* recommendations.sort((a, b) => priorityOrder[a.priority] - priorityOrder[b.priority]):
\* Array.prototype.sort orders by the comparator and keeps equal entries in place
RECURSIVE sort(_)
sort(recommendations) ==
    IF recommendations = <<>> THEN <<>>
    ELSE LET n == Len(recommendations)
             last == recommendations[n]
             front == sort(SubSeq(recommendations, 1, n - 1))
             k == Cardinality({i \in 1..(n - 1) :
                     priorityOrder(front[i].priority) - priorityOrder(last.priority) <= 0})
         IN SubSeq(front, 1, k) \o <<last>> \o SubSeq(front, k + 1, n - 1)

\* recommendations.push({priority, message, action}) when the rule's condition holds
PushIf(recommendations, condition, priority, message) ==
    IF condition
    THEN Append(recommendations, [priority |-> priority, message |-> message])
    ELSE recommendations

\* function generatePrioritizedRecommendations(latest, trends, patterns, predictedRisk)
generatePrioritizedRecommendations(latest, trends, patterns, predictedRisk) ==
    LET risk == latest.spoilageRisk
        temp == latest.temperature
        hum == latest.humidity
        mq == latest.mq_value
        r1 == PushIf(<<>>, temp < 3, "CRITICAL", "FREEZING TEMPERATURE")
        r2 == PushIf(r1, risk > 70, "CRITICAL", "CRITICAL SPOILAGE RISK")
        r3 == PushIf(r2, temp > 12, "HIGH", "Temperature too high")
        r4 == PushIf(r3, hum < 85, "HIGH", "Humidity too low")
        r5 == PushIf(r4, hum > 95, "HIGH", "Humidity very high")
        r6 == PushIf(r5, latest.dewPoint # 0 /\ temp - latest.dewPoint < 2,
                     "MEDIUM", "Condensation risk")
        r7 == PushIf(r6, mq > 300, "MEDIUM", "Poor air quality")
        r8 == PushIf(r7, trends.spoilageRisk \in {"RISING", "RISING_RAPIDLY"},
                     "MEDIUM", "Spoilage risk is increasing")
        r9 == PushIf(r8, temp >= 4 /\ temp <= 8 /\ hum >= 90 /\ hum <= 95 /\ risk < 40,
                     "LOW", "Conditions optimal")
    IN sort(r9)

\* the data volume factor with the scores of the two upper tiers exchanged
dataVolumeFactorSwapped(dataPoints) ==
    IF dataPoints > 20 THEN [score |-> 25, factor |-> "High data volume"]
    ELSE IF dataPoints > 10 THEN [score |-> 40, factor |-> "Moderate data volume"]
    ELSE [score |-> 10, factor |-> "Low data volume"]

\* calculateConfidenceWithFactors: the data volume factor
dataVolumeFactor(dataPoints) ==
    IF dataPoints > 20 THEN [score |-> 40, factor |-> "High data volume"]
    ELSE IF dataPoints > 10 THEN [score |-> 25, factor |-> "Moderate data volume"]
    ELSE [score |-> 10, factor |-> "Low data volume"]

\* function calculateConfidenceWithFactors(dataPoints, trends, patterns)
calculateConfidenceWithFactors(dataPoints, trends, patterns) ==
    LET volume == dataVolumeFactor(dataPoints).score
        volumeFactor == dataVolumeFactor(dataPoints).factor
        clearTrends == Cardinality({t \in DOMAIN trends :
                          trends[t] # "STABLE" /\ trends[t] # "INSUFFICIENT_DATA"})
        clarity == IF clearTrends >= 2 THEN 30 ELSE IF clearTrends >= 1 THEN 15 ELSE 0
        clarityFactor == IF clearTrends >= 2 THEN <<"Clear trends detected">>
                         ELSE IF clearTrends >= 1 THEN <<"Some trends detected">>
                         ELSE <<>>
        detectedPatterns == Cardinality({p \in DOMAIN patterns : patterns[p]})
        pattern == IF detectedPatterns > 0 THEN 20 ELSE 0
        patternFactor == IF detectedPatterns > 0 THEN <<"Patterns detected in data">>
                         ELSE <<>>
        score == volume + clarity + pattern + 10
    IN [level |-> IF score >= 70 THEN "high" ELSE IF score >= 40 THEN "medium" ELSE "low",
        score |-> score,
        factors |-> <<volumeFactor>> \o clarityFactor \o patternFactor
                    \o <<"Data appears consistent">>]

Min(a, b) == IF a < b THEN a ELSE b
Max(a, b) == IF a > b THEN a ELSE b
Abs(a) == IF a < 0 THEN -a ELSE a

\* data.slice(-n)
SliceLast(data, n) == SubSeq(data, Max(1, Len(data) - n + 1), Len(data))
\* recentData.map(d => d.field)
Column(rows, field) == [i \in 1..Len(rows) |-> rows[i][field]]
\* data[data.length - 1] - data[data.length - 2], or 0
LastChange(data) ==
    IF Len(data) > 1 THEN data[Len(data)] - data[Len(data) - 1] ELSE 0

\* function detectAcceleratingTrend(data)
detectAcceleratingTrend(data) ==
    IF Len(data) < 4 THEN FALSE
    ELSE LET half == Len(data) \div 2
             firstTrend == calculateSimpleTrend(SubSeq(data, 1, half))
             secondTrend == calculateSimpleTrend(SubSeq(data, half + 1, Len(data)))
         IN \* Math.abs(secondTrend) > Math.abs(firstTrend) * 1.5
            2 * Abs(secondTrend.num) * firstTrend.den
               > 3 * Abs(firstTrend.num) * secondTrend.den

\* function detectSpike(data, threshold), the threshold in hundredths
detectSpike(data, threshold) ==
    IF Len(data) < 3 THEN FALSE
    ELSE LET recent == SliceLast(data, 3)
             before == SubSeq(data, Max(1, Len(data) - 5), Len(data) - 3)
         IN IF Len(before) < 3 THEN FALSE
            ELSE \* Math.abs(avgRecent - avgBefore) > avgBefore * threshold
                 100 * Abs(Sum(recent) - Sum(before)) > threshold * Sum(before)

\* function generateDetailedSummary(latest, trends, changes), reading the
\* sections of THRESHOLDS
generateDetailedSummary(latest, trends, changes, thresholds) ==
    LET risk == Num(latest.spoilageRisk)
        temp == Num(latest.temperature)
        hum == Num(latest.humidity)
        mq == Num(latest.mq_value)
        riskThresholds == Get(thresholds, "spoilageRisk")
        tempThresholds == Get(thresholds, "temperature")
        humThresholds == Get(thresholds, "humidity")
        airQuality == Get(thresholds, "airQuality")
        condensationThreshold ==
            Get(Get(thresholds, "condensation"), "dewPointDifference")
    IN <<IF JsGT(risk, Get(riskThresholds, "high")) THEN "CRITICAL RISK"
         ELSE IF JsGT(risk, Get(riskThresholds, "medium")) THEN "ELEVATED RISK"
         ELSE "ACCEPTABLE RISK",
         IF JsGT(temp, Get(tempThresholds, "warningMax")) THEN "TEMPERATURE TOO HIGH"
         ELSE IF JsLT(temp, Get(tempThresholds, "idealMin")) THEN "TEMPERATURE TOO LOW"
         ELSE "TEMPERATURE OPTIMAL",
         IF JsLT(hum, Get(humThresholds, "warningMin")) THEN "HUMIDITY TOO LOW"
         ELSE IF JsGT(hum, Get(humThresholds, "idealMax")) THEN "HUMIDITY TOO HIGH"
         ELSE "HUMIDITY OPTIMAL">>
       \o (IF JsGT(mq, Get(airQuality, "poor")) THEN <<"POOR AIR QUALITY">>
           ELSE IF JsGT(mq, Get(airQuality, "moderate")) THEN <<"MODERATE AIR QUALITY">>
           ELSE <<>>)
       \o (IF latest.dewPoint # 0
              /\ JsLT(Num(latest.temperature - latest.dewPoint), condensationThreshold)
           THEN <<"CONDENSATION RISK">> ELSE <<>>)
       \o (IF trends.spoilageRisk \in {"RISING", "RISING_RAPIDLY"}
           THEN <<"RISK TRENDING UPWARD">> ELSE <<>>)

\* Math.round(num / den) for den > 0: the nearest integer, halves upwards
MathRound(num, den) == (2 * num + den) \div (2 * den)

\* generateDashboardAnalytics: const predictedRisk
predictedRiskOf(latestRisk, riskChange) ==
    Min(100, Max(0, latestRisk + riskChange * 6))

\* const timeToCritical without Math.max(1, ...)
timeToCriticalUnfloored(latestRisk, riskChange) ==
    IF riskChange > 0 THEN Num(MathRound(70 - latestRisk, riskChange)) ELSE Null

\* generateDashboardAnalytics: const timeToCritical, a number or null
timeToCriticalOf(latestRisk, riskChange) ==
    IF riskChange > 0
    THEN Num(Max(1, MathRound(70 - latestRisk, riskChange)))
    ELSE Null

\* x.toFixed(1) of a whole number: the digits of x, a point and one digit 0
toFixed1(x) == Str([sign |-> IF x < 0 THEN "-" ELSE "", whole |-> Abs(x), tenths |-> 0])

\* function generatePredictionsWithReasoning(latest, predictedRisk,
\* timeToCritical, riskChange, tempChange, humChange, mqChange)
generatePredictionsWithReasoning(latest, predictedRisk, timeToCritical, riskChange, tempChange, humChange, mqChange) ==
    [predictedRisk |-> toFixed1(predictedRisk),
     timeToCritical |-> timeToCritical,
     confidence |-> calculateConfidenceWithFactors(10, <<>>, <<>>).level,
     reasoning |->
        (IF riskChange > 0 THEN <<"Risk increasing">>
         ELSE IF riskChange < 0 THEN <<"Risk decreasing">> ELSE <<>>)
        \o (IF 2 * tempChange > 1 THEN <<"Temperature rising">> ELSE <<>>)
        \o (IF humChange > 2 THEN <<"Humidity rising">> ELSE <<>>)
        \o (IF mqChange > 50 THEN <<"Air quality declining">> ELSE <<>>)
        \o (IF latest.dewPoint # 0 /\ latest.temperature - latest.dewPoint < 2
            THEN <<"Condensation risk">> ELSE <<>>)]

\* function generateDashboardAnalytics(rows), reading THRESHOLDS
generateDashboardAnalytics(rows, thresholds) ==
    LET recentData == SliceLast(rows, 10)
        latest == recentData[Len(recentData)]
        temps == Column(recentData, "temperature")
        hums == Column(recentData, "humidity")
        risks == Column(recentData, "spoilageRisk")
        mqValues == Column(recentData, "mq_value")
        changes == [temperature |-> LastChange(temps), humidity |-> LastChange(hums),
                    spoilageRisk |-> LastChange(risks), mq135 |-> LastChange(mqValues)]
        trends == [temperature |-> getTrendLabel(calculateSimpleTrend(temps)),
                   humidity |-> getTrendLabel(calculateSimpleTrend(hums)),
                   spoilageRisk |-> getTrendLabel(calculateSimpleTrend(risks)),
                   airQuality |-> getTrendLabel(calculateSimpleTrend(mqValues))]
        predictedRisk == predictedRiskOf(latest.spoilageRisk, changes.spoilageRisk)
        timeToCritical == timeToCriticalOf(latest.spoilageRisk, changes.spoilageRisk)
        patterns == [acceleratingRisk |-> detectAcceleratingTrend(risks),
                     temperatureSpike |-> detectSpike(temps, 15),
                     humiditySurge |-> detectSpike(hums, 15),
                     airQualityDecline |->
                         Len(mqValues) > 3 /\ mqValues[Len(mqValues)] > 300]
    IN [summary |-> generateDetailedSummary(latest, trends, changes, thresholds),
        predictions |->
            generatePredictionsWithReasoning(latest, predictedRisk, timeToCritical,
                changes.spoilageRisk, changes.temperature, changes.humidity,
                changes.mq135),
        trends |-> trends,
        patterns |-> patterns,
        recommendations |->
            generatePrioritizedRecommendations(latest, trends, patterns, predictedRisk),
        confidence |-> calculateConfidenceWithFactors(Len(recentData), trends, patterns),
        metrics |-> [current |-> [temperature |-> latest.temperature,
                                  humidity |-> latest.humidity,
                                  mq135 |-> latest.mq_value,
                                  spoilageRisk |-> latest.spoilageRisk,
                                  dewPoint |-> latest.dewPoint],
                     changes |-> changes]]

\* the sections of THRESHOLDS generateDetailedSummary reads
ReadSections == {"spoilageRisk", "temperature", "humidity", "airQuality", "condensation"}
ReadThresholds(thresholds) == [k \in ReadSections |-> Get(thresholds, k)]

NoTrendsResponse ==
    [rows |-> 0, status |-> 0, json |-> "none", analytics |-> <<>>, read |-> <<>>]

\* the callback of db.all in app.get("/api/trends/:deviceId"): rows.length, the
\* response, the analytics it ran and the thresholds they read
trendsCallback(err, rows, thresholds) ==
    IF err
    THEN [rows |-> 0, status |-> 500, json |-> "Database error",
          analytics |-> <<>>, read |-> <<>>]
    ELSE IF Len(rows) < 3
         THEN [rows |-> Len(rows), status |-> 200, json |-> "INSUFFICIENT_DATA",
               analytics |-> <<>>, read |-> <<>>]
         ELSE [rows |-> Len(rows), status |-> 200, json |-> "analytics",
               analytics |-> <<generateDashboardAnalytics(rows, thresholds)>>,
               read |-> <<ReadThresholds(thresholds)>>]

(***************************************************************************)
(* Edge agent                                                             *)
(***************************************************************************)
MAX_HISTORY_SIZE == 20

\* horizon of the model: the number of loop passes that call a function
MaxMillis == 3

\* what dht.readTemperature() / readHumidity() return on a failed read
NaN == -9999
isnan(x) == x = NaN

\* the sketch's globals as initialised (lines 1192-1255)
InitEdge ==
    [SAMPLE_INTERVAL_MS |-> 30000, ALARM_DURATION |-> 1000, HISTORY_SIZE |-> 10,
     TEMP_IDEAL_MIN |-> 4, TEMP_IDEAL_MAX |-> 8,
     TEMP_WARNING_MIN |-> 3, TEMP_WARNING_MAX |-> 12,
     TEMP_CRITICAL_MIN |-> 2, TEMP_CRITICAL_MAX |-> 15,
     HUM_IDEAL_MIN |-> 90, HUM_IDEAL_MAX |-> 95,
     HUM_WARNING_MIN |-> 85, HUM_WARNING_MAX |-> 98,
     HUM_CRITICAL_MIN |-> 80, HUM_CRITICAL_MAX |-> 100,
     RISK_LOW |-> 20, RISK_MEDIUM |-> 40, RISK_HIGH |-> 70, RISK_CRITICAL |-> 85,
     DEW_POINT_DIFF |-> 2,
     ALARM_TRIGGER_THRESHOLD |-> 70, ALARM_STOP_THRESHOLD |-> 50,
     AIR_QUALITY_GOOD |-> 150, AIR_QUALITY_MODERATE |-> 300,
     AIR_QUALITY_POOR |-> 500, AIR_QUALITY_CRITICAL |-> 600,
     isConfigured |-> FALSE, lastSampleMillis |-> 0,
     lastButton1Press |-> 0, lastButton2Press |-> 0,
     lastButton1SinglePress |-> 0, waitingForSecondPress |-> FALSE,
     lastWifiCheck |-> 0,
     alarmActive |-> FALSE, alarmStartTime |-> 0,
     buzzerEnabled |-> TRUE,
     lastConfigFetch |-> 0, configFetched |-> FALSE,
     tempHistory |-> [i \in 0..(MAX_HISTORY_SIZE - 1) |-> 0],
     humHistory |-> [i \in 0..(MAX_HISTORY_SIZE - 1) |-> 0],
     historyIndex |-> 0, historyFilled |-> FALSE,
     buzzerPin |-> "LOW", ledPin |-> "HIGH"]

\* updateHistory writing the slot after historyIndex
updateHistoryNextSlot(e, temp, hum) ==
    LET next == (e.historyIndex + 1) % e.HISTORY_SIZE IN
    [e EXCEPT !.tempHistory[next] = temp,
              !.humHistory[next] = hum,
              !.historyIndex = next,
              !.historyFilled = IF next = 0 THEN TRUE ELSE @]

\* void updateHistory(float temp, float hum)
updateHistory(e, temp, hum) ==
    LET next == (e.historyIndex + 1) % e.HISTORY_SIZE IN
    [e EXCEPT !.tempHistory[e.historyIndex] = temp,
              !.humHistory[e.historyIndex] = hum,
              !.historyIndex = next,
              !.historyFilled = IF next = 0 THEN TRUE ELSE @]

\* analyzeTrends(): the label of the slope
slopeLabel(slope) ==
    LET absSlope == Quotient(IF slope.num < 0 THEN -slope.num ELSE slope.num, slope.den) IN
    IF LessThan(absSlope, 3) THEN "STABLE"
    ELSE IF GreaterThan(slope, 8) THEN "RISING_RAPIDLY"
    ELSE IF GreaterThan(slope, 3) THEN "RISING"
    ELSE IF LessThan(slope, -8) THEN "FALLING_RAPIDLY"
    ELSE IF LessThan(slope, -3) THEN "FALLING"
    ELSE "STABLE"

\* sum over i = 0 .. dataPoints - 1 of term(i)
RECURSIVE SumTo(_, _)
SumTo(term, dataPoints) ==
    IF dataPoints = 0 THEN 0 ELSE term[dataPoints - 1] + SumTo(term, dataPoints - 1)

\* analyzeTrends(): the regression slope over tempHistory[0 .. dataPoints - 1]
regressionSlope(tempHistory, dataPoints) ==
    LET sumX == SumTo([i \in 0..(dataPoints - 1) |-> i], dataPoints)
        sumY == SumTo([i \in 0..(dataPoints - 1) |-> tempHistory[i]], dataPoints)
        sumXY == SumTo([i \in 0..(dataPoints - 1) |-> i * tempHistory[i]], dataPoints)
        sumX2 == SumTo([i \in 0..(dataPoints - 1) |-> i * i], dataPoints)
    IN Quotient(dataPoints * sumXY - sumX * sumY, dataPoints * sumX2 - sumX * sumX)

\* String analyzeTrends()
analyzeTrends(e) ==
    IF ~e.historyFilled /\ e.historyIndex < 3 THEN "INSUFFICIENT_DATA"
    ELSE LET dataPoints == IF e.historyFilled THEN e.HISTORY_SIZE ELSE e.historyIndex IN
         IF dataPoints < 3 THEN "NEED_MORE_DATA"
         ELSE slopeLabel(regressionSlope(e.tempHistory, dataPoints))

readSensorsAppendFirst(e, temp, hum, mq_value) ==
    [e |-> updateHistory(e, temp, hum), ret |-> ~(isnan(temp) \/ isnan(hum))]

\* bool readSensors(float &temp, float &hum, float &mq_value): temp, hum and
\* mq_value are what the DHT22 and the MQ135 pin return
readSensors(e, temp, hum, mq_value) ==
    IF isnan(temp) \/ isnan(hum)
    THEN [e |-> e, ret |-> FALSE]
    ELSE [e |-> updateHistory(e, temp, hum), ret |-> TRUE]

\* float calculateDewPoint(float temp, float hum), in tenths of a degree rounded
\* up, for the temperatures and humidities of the model: the Magnus formula
\* evaluated in single precision as the sketch does.  For an integer n,
\* dewPoint * 10 > n exactly when the rounded-up value is > n.
calculateDewPoint(temp, hum) ==
    (CASE temp = -10 -> (50 :> -184 @@ 84 :> -121 @@ 86 :> -118 @@ 88 :> -116 @@ 92 :> -110 @@ 97 :> -103 @@ 100 :> -100 @@ 200 :> -8)
       [] temp = 0 -> (50 :> -91 @@ 84 :> -23 @@ 86 :> -20 @@ 88 :> -17 @@ 92 :> -11 @@ 97 :> -4 @@ 100 :> 0 @@ 200 :> 100)
       [] temp = 3 -> (50 :> -64 @@ 84 :> 6 @@ 86 :> 9 @@ 88 :> 13 @@ 92 :> 19 @@ 97 :> 26 @@ 100 :> 30 @@ 200 :> 132)
       [] temp = 6 -> (50 :> -36 @@ 84 :> 36 @@ 86 :> 39 @@ 88 :> 42 @@ 92 :> 48 @@ 97 :> 56 @@ 100 :> 60 @@ 200 :> 165)
       [] temp = 10 -> (50 :> 1 @@ 84 :> 75 @@ 86 :> 78 @@ 88 :> 82 @@ 92 :> 88 @@ 97 :> 96 @@ 100 :> 100 @@ 200 :> 209)
       [] temp = 14 -> (50 :> 38 @@ 84 :> 114 @@ 86 :> 117 @@ 88 :> 121 @@ 92 :> 128 @@ 97 :> 136 @@ 100 :> 140 @@ 200 :> 252)
       [] temp = 20 -> (50 :> 93 @@ 84 :> 173 @@ 86 :> 176 @@ 88 :> 180 @@ 92 :> 187 @@ 97 :> 196 @@ 100 :> 200 @@ 200 :> 318)
       [] temp = 200 -> (50 :> 1699 @@ 84 :> 1921 @@ 86 :> 1931 @@ 88 :> 1942 @@ 92 :> 1962 @@ 97 :> 1986 @@ 100 :> 2000 @@ 200 :> 2350))[hum]

\* log(hum / 100.0) is -infinity at hum = 0 and the dew point then NaN, which
\* compares false with everything
DewPointIsNaN(temp, hum) == hum <= 0

\* the temperatures and humidities calculateDewPoint is tabulated for
Temps == {-10, 0, 3, 6, 10, 14, 20, 200}
Hums == {0, 50, 84, 88, 92, 97, 100, 200}


calculateSpoilageRiskNoCap(e, temp, hum) ==
    (IF temp > e.TEMP_CRITICAL_MAX THEN (temp - e.TEMP_CRITICAL_MAX) * 40
     ELSE IF temp > e.TEMP_WARNING_MAX THEN (temp - e.TEMP_WARNING_MAX) * 20 ELSE 0)
    + (IF temp < e.TEMP_CRITICAL_MIN THEN (e.TEMP_CRITICAL_MIN - temp) * 30
       ELSE IF temp < e.TEMP_IDEAL_MIN THEN 100 ELSE 0)
    + (IF hum < e.HUM_WARNING_MIN THEN (e.HUM_WARNING_MIN - hum) * 20 ELSE 0)
    + (IF hum > e.HUM_CRITICAL_MAX THEN (hum - e.HUM_CRITICAL_MAX) * 50
       ELSE IF hum > e.HUM_IDEAL_MAX THEN (hum - e.HUM_IDEAL_MAX) * 20 ELSE 0)
    + (IF ~DewPointIsNaN(temp, hum)
          /\ calculateDewPoint(temp, hum) > (temp - e.DEW_POINT_DIFF) * 10
       THEN 400 ELSE 0)
    + (IF temp > e.TEMP_IDEAL_MAX THEN (temp - e.TEMP_IDEAL_MAX) * 15 ELSE 0)

\* calculateSpoilageRisk adding the below-ideal penalty below the critical
\* minimum too
calculateSpoilageRiskBothLow(e, temp, hum) ==
    Min((IF temp > e.TEMP_CRITICAL_MAX THEN (temp - e.TEMP_CRITICAL_MAX) * 40
         ELSE IF temp > e.TEMP_WARNING_MAX THEN (temp - e.TEMP_WARNING_MAX) * 20 ELSE 0)
        + (IF temp < e.TEMP_CRITICAL_MIN THEN (e.TEMP_CRITICAL_MIN - temp) * 30 ELSE 0)
        + (IF temp < e.TEMP_IDEAL_MIN THEN 100 ELSE 0)
        + (IF hum < e.HUM_WARNING_MIN THEN (e.HUM_WARNING_MIN - hum) * 20 ELSE 0)
        + (IF hum > e.HUM_CRITICAL_MAX THEN (hum - e.HUM_CRITICAL_MAX) * 50
           ELSE IF hum > e.HUM_IDEAL_MAX THEN (hum - e.HUM_IDEAL_MAX) * 20 ELSE 0)
        + (IF ~DewPointIsNaN(temp, hum)
              /\ calculateDewPoint(temp, hum) > (temp - e.DEW_POINT_DIFF) * 10
           THEN 400 ELSE 0)
        + (IF temp > e.TEMP_IDEAL_MAX THEN (temp - e.TEMP_IDEAL_MAX) * 15 ELSE 0),
        1000)

\* float calculateSpoilageRisk(float temp, float hum): the risk in tenths of a
\* percent (every coefficient times 10)
calculateSpoilageRisk(e, temp, hum) ==
    LET risk ==
          (IF temp > e.TEMP_CRITICAL_MAX THEN (temp - e.TEMP_CRITICAL_MAX) * 40
           ELSE IF temp > e.TEMP_WARNING_MAX THEN (temp - e.TEMP_WARNING_MAX) * 20 ELSE 0)
          + (IF temp < e.TEMP_CRITICAL_MIN THEN (e.TEMP_CRITICAL_MIN - temp) * 30
             ELSE IF temp < e.TEMP_IDEAL_MIN THEN 100 ELSE 0)
          + (IF hum < e.HUM_WARNING_MIN THEN (e.HUM_WARNING_MIN - hum) * 20 ELSE 0)
          + (IF hum > e.HUM_CRITICAL_MAX THEN (hum - e.HUM_CRITICAL_MAX) * 50
             ELSE IF hum > e.HUM_IDEAL_MAX THEN (hum - e.HUM_IDEAL_MAX) * 20 ELSE 0)
          + (IF ~DewPointIsNaN(temp, hum)
                /\ calculateDewPoint(temp, hum) > (temp - e.DEW_POINT_DIFF) * 10
             THEN 400 ELSE 0)
          + (IF temp > e.TEMP_IDEAL_MAX THEN (temp - e.TEMP_IDEAL_MAX) * 15 ELSE 0)
    IN Min(risk, 1000)

determineGrainHealthInverted(e, risk) ==
    IF risk < e.RISK_HIGH * 10 THEN "CRITICAL"
    ELSE IF risk > e.RISK_MEDIUM * 10 THEN "WARNING"
    ELSE IF risk > e.RISK_LOW * 10 THEN "CAUTION"
    ELSE "GOOD"

\* String determineGrainHealth(float risk), risk in tenths
determineGrainHealth(e, risk) ==
    IF risk > e.RISK_HIGH * 10 THEN "CRITICAL"
    ELSE IF risk > e.RISK_MEDIUM * 10 THEN "WARNING"
    ELSE IF risk > e.RISK_LOW * 10 THEN "CAUTION"
    ELSE "GOOD"

startAlarmRearmDelay(e, now) ==
    IF now = 0 \/ now - e.alarmStartTime > 2
    THEN [e EXCEPT !.alarmActive = TRUE, !.alarmStartTime = now]
    ELSE e

\* void startAlarm()
startAlarm(e, now) ==
    IF ~e.alarmActive
    THEN [e EXCEPT !.alarmActive = TRUE, !.alarmStartTime = now]
    ELSE e

\* void stopAlarm()
stopAlarm(e) == [e EXCEPT !.alarmActive = FALSE, !.buzzerPin = "LOW"]

postJsonRetry(payload, wifiUp, httpOk) ==
    IF ~wifiUp THEN [ret |-> FALSE, posts |-> 0, posted |-> <<>>]
    ELSE IF httpOk THEN [ret |-> TRUE, posts |-> 1, posted |-> <<payload>>]
    ELSE [ret |-> FALSE, posts |-> 2, posted |-> <<payload, payload>>]

\* bool postJson(const String &payload): wifiUp is WiFi.status() ==
\* WL_CONNECTED, httpOk whether http.POST returns a code in 1..299.
\* posts is the number of requests made, posted the payloads they carried.
postJson(payload, wifiUp, httpOk) ==
    IF ~wifiUp THEN [ret |-> FALSE, posts |-> 0, posted |-> <<>>]
    ELSE [ret |-> httpOk, posts |-> 1, posted |-> <<payload>>]

\* a % n in C for n > 0: the remainder has the sign of a
CRem(a, n) == IF a >= 0 THEN a % n ELSE -((-a) % n)

\* the slots of tempHistory analyzeTrends() reads
analyzeTrendsReads(e) ==
    IF ~e.historyFilled /\ e.historyIndex < 3 THEN {}
    ELSE 0..((IF e.historyFilled THEN e.HISTORY_SIZE ELSE e.historyIndex) - 1)

\* generatePredictions(): int validPoints = min(5, dataPoints)
validPoints(e) == Min(5, IF e.historyFilled THEN e.HISTORY_SIZE ELSE e.historyIndex)

\* generatePredictions(): int idx = (historyIndex - 1 - i + HISTORY_SIZE) % HISTORY_SIZE
predictionIdx(e, i) == CRem(e.historyIndex - 1 - i + e.HISTORY_SIZE, e.HISTORY_SIZE)

\* the slots of tempHistory and humHistory generatePredictions() reads
generatePredictionsReads(e) ==
    IF ~e.historyFilled /\ e.historyIndex < 5 THEN {}
    ELSE {predictionIdx(e, i) : i \in 0..(validPoints(e) - 1)}

\* generatePredictions(): the label from recentRisks[0 .. n - 1], the risks in
\* tenths: avgRisk is their sum / n and riskChange the sum of the successive
\* differences / (n - 1)
predictionLabel(recentRisks, n) ==
    LET sum == SumTo(recentRisks, n)
        diff == SumTo([i \in 0..(n - 1) |->
                          IF i > 0 THEN recentRisks[i] - recentRisks[i - 1] ELSE 0], n)
    IN IF n > 1 /\ diff > 20 * (n - 1)
          /\ 700 * n - sum > 0
          /\ (700 * n - sum) * (n - 1) < 48 * n * diff
       THEN [label |-> "CRITICAL_IN_HOURS",
             hours |-> ((700 * n - sum) * (n - 1)) \div (n * diff)]
       ELSE IF sum > 700 * n THEN [label |-> "IMMEDIATE_ACTION"]
       ELSE IF sum > 500 * n THEN [label |-> "MONITOR_CLOSELY"]
       ELSE IF sum > 300 * n THEN [label |-> "STABLE_WATCH"]
       ELSE [label |-> "CONDITIONS_GOOD"]

\* String generatePredictions()
generatePredictions(e) ==
    IF ~e.historyFilled /\ e.historyIndex < 5 THEN [label |-> "NEED_MORE_DATA"]
    ELSE predictionLabel(
             [i \in 0..(validPoints(e) - 1) |->
                 calculateSpoilageRisk(e, e.tempHistory[predictionIdx(e, i)],
                                       e.humHistory[predictionIdx(e, i)])],
             validPoints(e))

\* the alarm logic of processSensorData (lines 1723-1731)
alarmLogicSingleThreshold(e, now, risk) ==
    LET e1 == IF risk > e.ALARM_TRIGGER_THRESHOLD * 10 /\ ~e.alarmActive
              THEN startAlarm(e, now) ELSE e
    IN IF risk <= e.ALARM_TRIGGER_THRESHOLD * 10 /\ e1.alarmActive
       THEN stopAlarm(e1) ELSE e1

alarmLogic(e, now, risk) ==
    LET e1 == IF risk > e.ALARM_TRIGGER_THRESHOLD * 10 /\ ~e.alarmActive
              THEN startAlarm(e, now) ELSE e
    IN IF risk <= e.ALARM_STOP_THRESHOLD * 10 /\ e1.alarmActive
       THEN stopAlarm(e1) ELSE e1

\* void processSensorData(): the result holds the globals afterwards, the
\* payload built and what postJson did.  String(x, 1) prints whole units and
\* tenths exactly, so the payload carries the numbers themselves.
\* processSensorData() after readSensors() has succeeded: e holds the globals
\* with the reading stored
evaluateReading(e, now, temp, hum, mq_value, wifiUp, httpOk) ==
    LET risk == calculateSpoilageRisk(e, temp, hum)
        health == determineGrainHealth(e, risk)
        e2 == alarmLogic(e, now, risk)
        payload == [temperature |-> temp, humidity |-> hum,
                    mq_value |-> mq_value, spoilageRisk |-> risk,
                    grainHealth |-> health,
                    trendAnalysis |-> analyzeTrends(e),
                    prediction |-> generatePredictions(e)]
        post == postJson(payload, wifiUp, httpOk)
    IN [e |-> e2, ret |-> IF post.ret THEN "sent" ELSE "not_sent",
        payload |-> payload, posts |-> post.posts, posted |-> post.posted]

processSensorData(e, now, temp, hum, mq_value, wifiUp, httpOk) ==
    LET read == readSensors(e, temp, hum, mq_value) IN
    IF ~read.ret
    THEN [e |-> read.e, ret |-> "sensor_error", posts |-> 0, posted |-> <<>>]
    ELSE CHOOSE r \in {evaluateReading(stored, now, temp, hum, mq_value, wifiUp, httpOk) :
                          stored \in {read.e}} : TRUE

\* ---- ArduinoJson: variant | default, if (variant), JsonObject ----
AsFloatOr(variant, default) == IF variant.t = "num" THEN variant.v ELSE default
AsIntOr(variant, default) == IF variant.t = "num" THEN variant.v ELSE default
AsBoolOr(variant, default) == IF variant.t = "bool" THEN variant.v ELSE default
VariantTrue(variant) ==
    CASE variant.t = "bool" -> variant.v
      [] variant.t = "num" -> variant.v # 0
      [] variant.t \in {"obj", "str"} -> TRUE
      [] OTHER -> FALSE

\* an HTTP body that deserializeJson rejects
Unparsable == [t |-> "garbage"]

\* fetchConfig: if (thresholds["temperature"]) { ... }
updateTemperature(e, temperature) ==
    IF VariantTrue(temperature)
    THEN [e EXCEPT
           !.TEMP_IDEAL_MIN = AsFloatOr(Get(temperature, "idealMin"), @),
           !.TEMP_IDEAL_MAX = AsFloatOr(Get(temperature, "idealMax"), @),
           !.TEMP_WARNING_MIN = AsFloatOr(Get(temperature, "warningMin"), @),
           !.TEMP_WARNING_MAX = AsFloatOr(Get(temperature, "warningMax"), @),
           !.TEMP_CRITICAL_MIN = AsFloatOr(Get(temperature, "criticalMin"), @),
           !.TEMP_CRITICAL_MAX = AsFloatOr(Get(temperature, "criticalMax"), @)]
    ELSE e

\* fetchConfig: if (thresholds["humidity"]) { ... }
updateHumidity(e, humidity) ==
    IF VariantTrue(humidity)
    THEN [e EXCEPT
           !.HUM_IDEAL_MIN = AsFloatOr(Get(humidity, "idealMin"), @),
           !.HUM_IDEAL_MAX = AsFloatOr(Get(humidity, "idealMax"), @),
           !.HUM_WARNING_MIN = AsFloatOr(Get(humidity, "warningMin"), @),
           !.HUM_WARNING_MAX = AsFloatOr(Get(humidity, "warningMax"), @),
           !.HUM_CRITICAL_MIN = AsFloatOr(Get(humidity, "criticalMin"), @),
           !.HUM_CRITICAL_MAX = AsFloatOr(Get(humidity, "criticalMax"), @)]
    ELSE e

\* fetchConfig: if (thresholds["airQuality"]) { ... }
updateAirQuality(e, airQuality) ==
    IF VariantTrue(airQuality)
    THEN [e EXCEPT
           !.AIR_QUALITY_GOOD = AsIntOr(Get(airQuality, "good"), @),
           !.AIR_QUALITY_MODERATE = AsIntOr(Get(airQuality, "moderate"), @),
           !.AIR_QUALITY_POOR = AsIntOr(Get(airQuality, "poor"), @),
           !.AIR_QUALITY_CRITICAL = AsIntOr(Get(airQuality, "veryPoor"), @)]
    ELSE e

\* fetchConfig: if (thresholds["spoilageRisk"]) { ... }
updateSpoilageRisk(e, spoilageRisk) ==
    IF VariantTrue(spoilageRisk)
    THEN [e EXCEPT
           !.RISK_LOW = AsFloatOr(Get(spoilageRisk, "low"), @),
           !.RISK_MEDIUM = AsFloatOr(Get(spoilageRisk, "medium"), @),
           !.RISK_HIGH = AsFloatOr(Get(spoilageRisk, "high"), @),
           !.RISK_CRITICAL = AsFloatOr(Get(spoilageRisk, "critical"), @)]
    ELSE e

\* fetchConfig: if (thresholds["condensation"]) { ... }
updateCondensation(e, condensation) ==
    IF VariantTrue(condensation)
    THEN [e EXCEPT
           !.DEW_POINT_DIFF = AsFloatOr(Get(condensation, "dewPointDifference"), @)]
    ELSE e

\* fetchConfig: JsonObject thresholds = doc["thresholds"]; if (thresholds) { ... }
updateThresholds(e, thresholds) ==
    IF isObject(thresholds)
    THEN updateCondensation(
             updateSpoilageRisk(
                 updateAirQuality(
                     updateHumidity(
                         updateTemperature(e, Get(thresholds, "temperature")),
                         Get(thresholds, "humidity")),
                     Get(thresholds, "airQuality")),
                 Get(thresholds, "spoilageRisk")),
             Get(thresholds, "condensation"))
    ELSE e

\* fetchConfig: the trigger threshold and the stop threshold derived from it
setAlarmThresholds(e, trigger) ==
    [e EXCEPT !.ALARM_TRIGGER_THRESHOLD = trigger,
              !.ALARM_STOP_THRESHOLD = trigger - 20]

\* the alerts block of fetchConfig also clearing the alarm
updateAlertsClearsAlarm(e, alerts) ==
    IF isObject(alerts)
    THEN setAlarmThresholds(
             [e EXCEPT !.buzzerEnabled = AsBoolOr(Get(alerts, "buzzerEnabled"), @),
                       !.ALARM_DURATION = AsIntOr(Get(alerts, "buzzerDuration"), @),
                       !.alarmActive = FALSE],
             AsFloatOr(Get(alerts, "criticalRiskThreshold"), e.ALARM_TRIGGER_THRESHOLD))
    ELSE e

\* fetchConfig: JsonObject alerts = doc["alerts"]; if (alerts) { ... }
updateAlerts(e, alerts) ==
    IF isObject(alerts)
    THEN setAlarmThresholds(
             [e EXCEPT !.buzzerEnabled = AsBoolOr(Get(alerts, "buzzerEnabled"), @),
                       !.ALARM_DURATION = AsIntOr(Get(alerts, "buzzerDuration"), @)],
             AsFloatOr(Get(alerts, "criticalRiskThreshold"), e.ALARM_TRIGGER_THRESHOLD))
    ELSE e

\* fetchConfig: the history size clamped to MAX_HISTORY_SIZE, then raised to 3
setHistorySize(e, newHistorySize) ==
    [e EXCEPT !.HISTORY_SIZE =
        IF newHistorySize > MAX_HISTORY_SIZE
        THEN (IF MAX_HISTORY_SIZE < 3 THEN 3 ELSE MAX_HISTORY_SIZE)
        ELSE (IF newHistorySize < 3 THEN 3 ELSE newHistorySize)]

\* fetchConfig: JsonObject dataCollection = doc["dataCollection"];
\* if (dataCollection) { ... }
updateDataCollection(e, dataCollection) ==
    IF isObject(dataCollection)
    THEN setHistorySize(
             [e EXCEPT !.SAMPLE_INTERVAL_MS =
                           AsIntOr(Get(dataCollection, "sampleInterval"), @)],
             AsIntOr(Get(dataCollection, "historySize"), e.HISTORY_SIZE))
    ELSE e

\* the assignments of fetchConfig once the document is parsed (lines 1885-1947)
applyConfig(e, doc) ==
    [updateDataCollection(
         updateAlerts(updateThresholds(e, Get(doc, "thresholds")), Get(doc, "alerts")),
         Get(doc, "dataCollection"))
     EXCEPT !.configFetched = TRUE]

fetchConfigKeepStop(e, wifiUp, httpCode, body) ==
    IF ~wifiUp \/ httpCode # 200 \/ body = Unparsable
    THEN [e |-> e, ret |-> FALSE]
    ELSE [e |-> [applyConfig(e, body) EXCEPT
                    !.ALARM_STOP_THRESHOLD = e.ALARM_STOP_THRESHOLD],
          ret |-> TRUE]

fetchConfigApplyOnError(e, wifiUp, httpCode, body) ==
    IF ~wifiUp \/ body = Unparsable
    THEN [e |-> e, ret |-> FALSE]
    ELSE [e |-> applyConfig(e, body), ret |-> httpCode = 200]

\* bool fetchConfig(): wifiUp is WiFi.status() == WL_CONNECTED, httpCode what
\* http.GET() returns, body the payload received
fetchConfig(e, wifiUp, httpCode, body) ==
    IF ~wifiUp THEN [e |-> e, ret |-> FALSE]
    ELSE IF httpCode = 200
         THEN IF body = Unparsable
              THEN [e |-> e, ret |-> FALSE]
              ELSE [e |-> applyConfig(e, body), ret |-> TRUE]
         ELSE [e |-> e, ret |-> FALSE]

\* ---- the environment of the edge agent ----
\* sensor samples: low, dead-band and high risk under the default thresholds,
\* and failed reads
Samples == {<<6, 84>>, <<14, 92>>, <<20, 97>>, <<NaN, 92>>, <<14, NaN>>}
MqValues == {120}

\* a partial update that changes thresholds calculateSpoilageRisk and
\* determineGrainHealth read
UpdEdgeThresholds ==
    Obj([thresholds |-> Obj([temperature |-> Obj([criticalMax |-> Num(18), idealMin |-> Num(7)]),
                             spoilageRisk |-> Obj([high |-> Num(60)]),
                             condensation |-> Obj([dewPointDifference |-> Num(1)])])])

\* a partial update validateConfig accepts that moves the warning bands far
\* outside their ranges
UpdWideBands ==
    Obj([thresholds |-> Obj([temperature |-> Obj([warningMax |-> Num(-100)]),
                             humidity |-> Obj([warningMin |-> Num(100),
                                               criticalMax |-> Num(0)])])])

\* documents GET /api/config serves: the default configuration and
\* configurations PUT /api/config accepts
ServedConfigs ==
    {getDefaultConfig,
     deepMerge(getDefaultConfig, UpdAlerts),
     deepMerge(deepMerge(getDefaultConfig, UpdNoAlerts), UpdEdgeThresholds),
     deepMerge(getDefaultConfig, UpdHistory),
     deepMerge(getDefaultConfig, UpdWideBands)}

HttpCodes == {200, 404, -1}

\* a loop pass that calls processSensorData (the sample timer or button 1)
ProcessSensorData(temp, hum, mq_value, wifiUp, httpOk) ==
    /\ millis < MaxMillis
    /\ LET r == processSensorData(edge, millis, temp, hum, mq_value, wifiUp, httpOk) IN
       /\ edge' = r.e
       /\ call' = [fn |-> "processSensorData", temp |-> temp, hum |-> hum,
                   ret |-> r.ret,
                   payload |-> IF r.ret = "sensor_error" THEN Null ELSE r.payload,
                   posted |-> r.posted]
       /\ postCount' = postCount + r.posts
    /\ millis' = millis + 1
    /\ UNCHANGED <<passes, readings>>

\* a loop pass (or connectToWiFi) that calls fetchConfig
FetchConfig(wifiUp, httpCode, body) ==
    /\ millis < MaxMillis
    /\ LET r == fetchConfig(edge, wifiUp, httpCode, body) IN
       /\ edge' = r.e
       /\ call' = [fn |-> "fetchConfig", wifiUp |-> wifiUp, httpCode |-> httpCode,
                   body |-> body, ret |-> r.ret]
    /\ millis' = millis + 1
    /\ UNCHANGED <<postCount, passes, readings>>


(***************************************************************************)
(* loop(): buttons, buzzer, WiFi check and the two timers.  The clock is   *)
(* in ms; delay() and beep() advance it, network calls are taken to        *)
(* return at once.                                                         *)
(***************************************************************************)
DEBOUNCE_DELAY == 250
DOUBLE_PRESS_WINDOW == 500
CONFIG_FETCH_INTERVAL == 300000
WIFI_CHECK_INTERVAL == 60000
LOOP_DELAY == 50

\* what the environment answers during one pass of loop(): button1 is
\* digitalRead(BUTTON1_PIN) == LOW, button2 is analogRead(BUTTON2_PIN) < 100,
\* wifiUp is WiFi.status() == WL_CONNECTED, reconnect whether WiFi.begin
\* connects within 30 s, sample what the DHT22 returns, httpOk and httpCode
\* what http.POST and http.GET return, body the payload of the GET (its index
\* in the documents served)
Env(samples, bodies, codes) ==
    [button1 : BOOLEAN, button2 : BOOLEAN, wifiUp : BOOLEAN, reconnect : BOOLEAN,
     sample : samples, httpOk : BOOLEAN, httpCode : codes, body : bodies]

\* the documents GET /api/config serves the looping agent: sampling every
\* 300 s, without and with the alerts of UpdAlerts
UpdSlowSampling == Obj([dataCollection |-> Obj([sampleInterval |-> Num(300000)])])
LoopBodies == <<deepMerge(getDefaultConfig, UpdSlowSampling),
               deepMerge(deepMerge(getDefaultConfig, UpdSlowSampling), UpdAlerts)>>

\* the state threaded through one pass: the globals, the clock, and what the
\* pass did (requests posted, calls of fetchConfig and of processSensorData)
PassState(e, t) ==
    [e |-> e, t |-> t, posted |-> <<>>, fetches |-> <<>>, evals |-> <<>>,
     buzzer |-> <<>>]

\* void beep(int duration)
beep(ps, duration) ==
    [ps EXCEPT !.e.buzzerPin = "LOW", !.t = @ + duration]

\* a call of processSensorData() inside a pass
CallProcessSensorData(ps, wifiUp, in) ==
    LET r == processSensorData(ps.e, ps.t, in.sample[1], in.sample[2], 120,
                               wifiUp, in.httpOk)
    IN [ps EXCEPT !.e = r.e,
                  !.posted = @ \o r.posted,
                  !.evals = Append(@, [at |-> ps.t, ret |-> r.ret,
                                       temp |-> in.sample[1], hum |-> in.sample[2],
                                       risk |-> IF r.ret = "sensor_error" THEN NaN
                                                ELSE r.payload.spoilageRisk,
                                       trigger |-> ps.e.ALARM_TRIGGER_THRESHOLD,
                                       stop |-> ps.e.ALARM_STOP_THRESHOLD])]

\* a call of fetchConfig() inside a pass
CallFetchConfig(ps, wifiUp, in) ==
    LET r == fetchConfig(ps.e, wifiUp, in.httpCode, LoopBodies[in.body])
    IN [ps EXCEPT !.e = r.e,
                  !.fetches = Append(@, [at |-> ps.t, ret |-> r.ret])]

handleBuzzerMuteStops(e, now) ==
    IF e.alarmActive /\ e.buzzerEnabled
    THEN LET cycle == (now \div 200) % 4 IN
         [e EXCEPT !.buzzerPin = IF cycle = 0 \/ cycle = 1 THEN "HIGH" ELSE "LOW"]
    ELSE stopAlarm(e)

\* void handleBuzzer()
handleBuzzer(e, now) ==
    IF e.alarmActive
    THEN IF e.buzzerEnabled
         THEN LET cycle == (now \div 200) % 4 IN
              [e EXCEPT !.buzzerPin = IF cycle = 0 \/ cycle = 1 THEN "HIGH" ELSE "LOW"]
         ELSE [e EXCEPT !.buzzerPin = "LOW"]
    ELSE [e EXCEPT !.buzzerPin = "LOW"]

\* void factoryReset(): the preferences are cleared and the board restarts
\* without WiFi credentials
factoryReset(ps) ==
    [ps EXCEPT !.e = [InitEdge EXCEPT !.isConfigured = FALSE], !.t = 0]

\* handleButtons(): button 1 pressed, the first press or the second press
\* within the window
button1(ps, now, in) ==
    IF in.button1 /\ now - ps.e.lastButton1Press > DEBOUNCE_DELAY
    THEN IF ps.e.waitingForSecondPress
            /\ now - ps.e.lastButton1SinglePress < DOUBLE_PRESS_WINDOW
         THEN [beep([beep(ps, 50) EXCEPT !.t = @ + 50], 50) EXCEPT
                  !.e.lastButton1Press = now,
                  !.e.buzzerEnabled = ~@,
                  !.e.waitingForSecondPress = FALSE]
         ELSE [ps EXCEPT !.e.lastButton1Press = now,
                         !.e.lastButton1SinglePress = now,
                         !.e.waitingForSecondPress = TRUE]
    ELSE ps

\* handleButtons(): the window expired, manual reading
singlePressTimeout(ps, now, in) ==
    IF ps.e.waitingForSecondPress
       /\ now - ps.e.lastButton1SinglePress >= DOUBLE_PRESS_WINDOW
    THEN [CallProcessSensorData(beep(ps, 50), in.wifiUp, in)
             EXCEPT !.e.waitingForSecondPress = FALSE]
    ELSE ps

\* handleButtons(): button 2 pressed, LED toggle
button2(ps, now, in) ==
    IF in.button2 /\ now - ps.e.lastButton2Press > DEBOUNCE_DELAY
    THEN [beep(ps, 50) EXCEPT
             !.e.lastButton2Press = now,
             !.e.ledPin = IF @ = "HIGH" THEN "LOW" ELSE "HIGH"]
    ELSE ps

\* handleButtons(): factory reset on a long press of button 2
button2LongPress(ps, now, in) ==
    IF in.button2 /\ now - ps.e.lastButton2Press > 5000
    THEN factoryReset(beep(ps, 500))
    ELSE ps

\* handleButtons(): whether this call takes the double-press branch
doublePress(e, now, in) ==
    /\ in.button1 /\ now - e.lastButton1Press > DEBOUNCE_DELAY
    /\ e.waitingForSecondPress
    /\ now - e.lastButton1SinglePress < DOUBLE_PRESS_WINDOW

\* the value the operator last gave buzzerEnabled by a double press, if any
NoChoice == [made |-> FALSE]
Choice(value) == [made |-> TRUE, value |-> value]

\* void handleButtons()
handleButtons(ps0, in) ==
    button2LongPress(
        button2(singlePressTimeout(button1(ps0, ps0.t, in), ps0.t, in), ps0.t, in),
        ps0.t, in)

\* the payload of sendStartupAnnouncement()
Announcement ==
    [temperature |-> 0, humidity |-> 0, mq_value |-> 0, spoilageRisk |-> 0,
     grainHealth |-> "ONLINE"]

\* void connectToWiFi(): WiFi.begin is polled every 500 ms for 30 s, toggling
\* the LED an even number of times when it never connects
connectToWiFi(ps0, in) ==
    LET ps1 == [ps0 EXCEPT !.t = @ + 1000] IN
    IF in.reconnect
    THEN LET ps2 == beep([ps1 EXCEPT !.e.ledPin = "HIGH"], 300)
             ps3 == CallFetchConfig(ps2, TRUE, in)
             post == postJson(Announcement, TRUE, in.httpOk)
         IN [ps3 EXCEPT !.posted = @ \o post.posted]
    ELSE LET ps2 == [ps1 EXCEPT !.t = @ + 30000]
             ps3 == [beep(beep(beep(ps2, 100), 100), 100) EXCEPT !.t = @ + 400]
         IN [ps3 EXCEPT !.e.isConfigured = FALSE]

\* what a call of handleBuzzer() saw and did
BuzzerStep(before, after) ==
    <<[alarmActive |-> before.alarmActive, buzzerEnabled |-> before.buzzerEnabled,
       pin |-> after.buzzerPin, alarmAfter |-> after.alarmActive]>>

\* loop(): handleBuzzer()
buzzerPass(ps) ==
    LET e == handleBuzzer(ps.e, ps.t) IN
    [ps EXCEPT !.e = e, !.buzzer = BuzzerStep(ps.e, e)]

\* loop(): the WiFi check, every 60 s, and WiFi.status() at line 1311
wifiCheck(ps, in) ==
    IF ps.t - ps.e.lastWifiCheck > WIFI_CHECK_INTERVAL
    THEN IF ~in.wifiUp
         THEN [ps |-> connectToWiFi([ps EXCEPT !.e.lastWifiCheck = ps.t], in),
               connected |-> in.reconnect]
         ELSE [ps |-> [ps EXCEPT !.e.lastWifiCheck = ps.t], connected |-> TRUE]
    ELSE [ps |-> ps, connected |-> in.wifiUp]

\* loop(): if (fetchConfig()) lastConfigFetch = now
pullDone(ps, now) ==
    IF ps.fetches[Len(ps.fetches)].ret
    THEN [ps EXCEPT !.e.lastConfigFetch = now]
    ELSE ps

\* loop(): the configuration pull, on the first run or every
\* CONFIG_FETCH_INTERVAL
configTimer(ps, now, in) ==
    IF ~ps.e.configFetched \/ now - ps.e.lastConfigFetch >= CONFIG_FETCH_INTERVAL
    THEN pullDone(CallFetchConfig(ps, TRUE, in), now)
    ELSE ps

\* loop(): the sample timer
sampleTimer(ps, now, in) ==
    IF now - ps.e.lastSampleMillis >= ps.e.SAMPLE_INTERVAL_MS
    THEN CallProcessSensorData([ps EXCEPT !.e.lastSampleMillis = now], TRUE, in)
    ELSE ps

\* loop(): if (WiFi.status() == WL_CONNECTED) { ... }
connectedPass(c, in) ==
    IF c.connected
    THEN sampleTimer(configTimer(c.ps, c.ps.t, in), c.ps.t, in)
    ELSE c.ps

\* loop(): if (isConfigured) { ... }
configuredPass(ps, in) ==
    IF ps.e.isConfigured THEN connectedPass(wifiCheck(ps, in), in) ELSE ps

\* void loop(): one pass
loop(ps0, in) ==
    [configuredPass(buzzerPass(handleButtons(ps0, in)), in) EXCEPT !.t = @ + LOOP_DELAY]

\* void setup(): configured is whether the preferences hold WiFi credentials
\* (loadConfig); the startup beeps take 300 ms
setup(configured, in) ==
    LET ps0 == PassState([InitEdge EXCEPT !.isConfigured = configured], 300) IN
    IF configured THEN connectToWiFi(ps0, in) ELSE ps0

InitEdgeVars ==
    /\ edge = InitEdge
    /\ millis = 0
    /\ call = [fn |-> "none"]
    /\ postCount = 0
    /\ passes = 0
    /\ readings = <<>>

InitServer ==
    /\ CONFIG = getDefaultConfig
    /\ THRESHOLDS = Get(getDefaultConfig, "thresholds")
    /\ configFile \in {Absent, getDefaultConfig}
    /\ res = NoResponse
    /\ trendsPending = 0
    /\ trendsRes = NoTrendsResponse

InitMergeIdle ==
    /\ mTarget = Null /\ mSource = Null /\ mOutput = Null /\ mDone = FALSE

\* no function of the analytics has returned yet
NotCalled == [called |-> FALSE]
Returned(value) == [called |-> TRUE, value |-> value]

InitAnalyticsIdle ==
    /\ fCall = [fn |-> "none"] /\ fRet = NotCalled

InitS == InitServer /\ InitMergeIdle /\ InitAnalyticsIdle /\ InitEdgeVars

NextServer ==
    \/ \E u \in Updates, writeOk \in BOOLEAN :
          PutConfig(u, writeOk) /\ UNCHANGED <<trendsVars, mergeVars, analyticsVars, edgeVars>>
    \/ \E writeOk \in BOOLEAN :
          PostConfigReset(writeOk) /\ UNCHANGED <<trendsVars, mergeVars, analyticsVars, edgeVars>>
    \/ loadConfig /\ UNCHANGED <<trendsVars, mergeVars, analyticsVars, edgeVars>>

\* The aggregation service's configuration API
SpecServer == InitS /\ [][NextServer]_vars

(***************************************************************************)
(* /api/trends requests among configuration updates                       *)
(***************************************************************************)
\* largest number of rows the query returns
MaxRows == 4
\* largest number of queries in progress
MaxPending == 2

\* rows of sensor_data
TrendRows ==
    {[temperature |-> 5, humidity |-> 92, spoilageRisk |-> 30, mq_value |-> 100,
      dewPoint |-> 4],
     [temperature |-> 13, humidity |-> 96, spoilageRisk |-> 65, mq_value |-> 310,
      dewPoint |-> 12]}
\* what db.all passes to its callback as rows
RowWindows == UNION {[1..n -> TrendRows] : n \in 0..MaxRows}

TrendsUpdates == {UpdRiskHigh, UpdWideBands}

\* app.get("/api/trends/:deviceId"): db.all(query, ..., callback) is issued
GetTrends ==
    /\ trendsPending < MaxPending
    /\ trendsPending' = trendsPending + 1
    /\ UNCHANGED <<CONFIG, THRESHOLDS, configFile, res, trendsRes>>

\* the callback of db.all runs, with an error or with the rows of the window
TrendsCallback(err, rows) ==
    /\ trendsPending > 0
    /\ trendsPending' = trendsPending - 1
    /\ trendsRes' = trendsCallback(err, rows, THRESHOLDS)
    /\ UNCHANGED <<CONFIG, THRESHOLDS, configFile, res>>

NextTrends ==
    \/ \E u \in TrendsUpdates, writeOk \in BOOLEAN :
          PutConfig(u, writeOk) /\ UNCHANGED <<trendsVars, mergeVars, analyticsVars, edgeVars>>
    \/ \E writeOk \in BOOLEAN :
          PostConfigReset(writeOk) /\ UNCHANGED <<trendsVars, mergeVars, analyticsVars, edgeVars>>
    \/ GetTrends /\ UNCHANGED <<mergeVars, analyticsVars, edgeVars>>
    \/ \E err \in BOOLEAN, rows \in RowWindows :
          TrendsCallback(err, rows) /\ UNCHANGED <<mergeVars, analyticsVars, edgeVars>>

\* Handlers and callbacks of the aggregation service: each runs to completion
\* before the next one starts
SpecTrends == InitS /\ [][NextTrends]_vars

(***************************************************************************)
(* deepMerge on arbitrary documents: prior documents and partial updates  *)
(* over the keys a, b (nested: c, d, e), up to three levels deep          *)
(***************************************************************************)
ObjectsOver(keys, values) ==
    {Obj(f) : f \in UNION {[D -> values] : D \in SUBSET keys}}

MergeTargets ==
    ObjectsOver({"a", "b"},
                {Num(1), Null, Str(<<"s">>)} \cup ObjectsOver({"c", "d"}, {Num(1)}))

MergeSources ==
    ObjectsOver({"a", "b"},
                {Num(2), Null, Obj([c |-> Num(2)]), Obj([c |-> Obj([e |-> Num(2)])])})

InitMerge ==
    /\ InitServer /\ configFile = Absent
    /\ mTarget \in MergeTargets
    /\ mSource \in MergeSources
    /\ mOutput = Null
    /\ mDone = FALSE
    /\ InitAnalyticsIdle
    /\ InitEdgeVars

\* const updatedConfig = deepMerge(CONFIG, updates), on the drawn documents;
\* deepMerge writes to its copy (output) only
MergeStep ==
    /\ ~mDone
    /\ mOutput' = deepMerge(mTarget, mSource)
    /\ mDone' = TRUE
    /\ UNCHANGED <<mTarget, mSource>>
    /\ UNCHANGED <<serverVars, analyticsVars, edgeVars>>

NextMerge == MergeStep

SpecMerge == InitMerge /\ [][NextMerge]_vars

(***************************************************************************)
(* The analytics functions on arbitrary arguments                         *)
(***************************************************************************)
\* largest number of samples passed to calculateConfidenceWithFactors
MaxDataPoints == 22
\* trend values and slopes are drawn from -MaxSlope / 20 .. MaxSlope / 20
MaxSlope == 25

TrendKeys == {"temperature", "humidity", "spoilageRisk", "airQuality"}
PatternKeys == {"acceleratingRisk", "temperatureSpike", "humiditySurge",
                "airQualityDecline"}
\* const trends = {...}: the value of each entry
TrendObjects ==
    [TrendKeys -> {"STABLE", "RISING"}] \cup {[k \in TrendKeys |-> "INSUFFICIENT_DATA"]}
\* const patterns = {...}: the detected flag of each entry
PatternObjects == [PatternKeys -> BOOLEAN]
\* the latest row of sensor_data
LatestRows ==
    [temperature : {2, 5, 13}, humidity : {84, 92, 96}, spoilageRisk : {30, 71},
     mq_value : {0, 301}, dewPoint : {0, 4, 12}]

\* spoilageRisk of a row: calculateSpoilageRisk clamps it to 0..100
RiskScores == 0..100
\* a window of three rows of one device whose last two rows carry the risks
\* previous and latest
RiskWindow(previous, latest) ==
    LET row(risk) == [temperature |-> 5, humidity |-> 92, spoilageRisk |-> risk,
                      mq_value |-> 100, dewPoint |-> 4]
    IN <<row(previous), row(previous), row(latest)>>

AnalyticsCalls ==
    [fn : {"generateDashboardAnalytics"},
     rows : {RiskWindow(previous, latest) : previous \in RiskScores, latest \in RiskScores}]
    \cup
    [fn : {"generatePrioritizedRecommendations"}, latest : LatestRows,
     trends : {[k \in TrendKeys |-> "STABLE"],
               [k \in TrendKeys |-> IF k = "spoilageRisk" THEN "RISING" ELSE "STABLE"]}]
    \cup [fn : {"calculateConfidenceWithFactors"}, dataPoints : 0..MaxDataPoints,
          trends : TrendObjects, patterns : PatternObjects]
    \cup [fn : {"getTrendLabel"},
          trendValue : {Quotient(k, 20) : k \in (-MaxSlope)..MaxSlope}]

InitAnalytics ==
    /\ InitServer /\ configFile = Absent /\ InitMergeIdle
    /\ fCall \in AnalyticsCalls
    /\ fRet = NotCalled
    /\ InitEdgeVars

GeneratePrioritizedRecommendations ==
    /\ fCall.fn = "generatePrioritizedRecommendations" /\ ~fRet.called
    /\ fRet' = Returned(generatePrioritizedRecommendations(
                    fCall.latest, fCall.trends,
                    [k \in PatternKeys |-> FALSE], fCall.latest.spoilageRisk))
    /\ UNCHANGED <<fCall, serverVars, mergeVars, edgeVars>>

CalculateConfidenceWithFactors ==
    /\ fCall.fn = "calculateConfidenceWithFactors" /\ ~fRet.called
    /\ fRet' = Returned(calculateConfidenceWithFactors(
                    fCall.dataPoints, fCall.trends, fCall.patterns))
    /\ UNCHANGED <<fCall, serverVars, mergeVars, edgeVars>>

GetTrendLabel ==
    /\ fCall.fn = "getTrendLabel" /\ ~fRet.called
    /\ fRet' = Returned(getTrendLabel(fCall.trendValue))
    /\ UNCHANGED <<fCall, serverVars, mergeVars, edgeVars>>

GenerateDashboardAnalytics ==
    /\ fCall.fn = "generateDashboardAnalytics" /\ ~fRet.called
    /\ fRet' = Returned(generateDashboardAnalytics(fCall.rows, THRESHOLDS))
    /\ UNCHANGED <<fCall, serverVars, mergeVars, edgeVars>>

NextAnalytics ==
    \/ GenerateDashboardAnalytics
    \/ GeneratePrioritizedRecommendations
    \/ CalculateConfidenceWithFactors
    \/ GetTrendLabel

SpecAnalytics == InitAnalytics /\ [][NextAnalytics]_vars


\* ---- the environment of loop() ----
LoopSamples == {<<6, 84>>, <<20, 97>>}
LoopCodes == {200, 404}
\* reconnect and body are fixed where loop() cannot read them (WiFi connected,
\* GET not answered 200); button 2 is pressed alone, with WiFi connected and
\* the server answering 404; a server that fails the POST answers the GET 404
LoopEnv ==
    {in \in Env(LoopSamples, {1, 2}, LoopCodes) :
        /\ in.wifiUp => in.reconnect
        /\ in.httpCode # 200 => in.body = 1
        /\ ~in.httpOk => in.httpCode = 404 /\ ~in.button2
        /\ in.button2 => /\ ~in.button1 /\ in.wifiUp /\ in.httpCode = 404
                         /\ in.sample = <<6, 84>>}

MaxPasses == 4

\* the last call of fetchConfig so far
LastAttempt(fetches, before) ==
    IF fetches = <<>> THEN before ELSE <<fetches[Len(fetches)]>>

\* one pass of loop()
Loop(in) ==
    /\ passes < MaxPasses
    /\ LET r == loop(PassState(edge, millis), in) IN
       /\ edge' = r.e
       /\ millis' = r.t
       /\ postCount' = postCount + Len(r.posted)
       /\ call' = [fn |-> "loop", at |-> millis, fetches |-> r.fetches,
                   evals |-> r.evals, buzzer |-> r.buzzer,
                   lastAttempt |-> LastAttempt(r.fetches, call.lastAttempt),
                   prevAttempt |-> call.lastAttempt,
                   choice |-> IF doublePress(edge, millis, in)
                              THEN Choice(~edge.buzzerEnabled) ELSE call.choice]
    /\ passes' = passes + 1
    /\ UNCHANGED readings

\* the passes of loop() at millis, millis + 50, ... in which the WiFi check fires
\* with WiFi connected: the time of the last one
WifiCheckedAt(lastWifiCheck, from, last) ==
    IF last - lastWifiCheck <= WIFI_CHECK_INTERVAL THEN lastWifiCheck
    ELSE LET period == WIFI_CHECK_INTERVAL + LOOP_DELAY
             first == IF from > lastWifiCheck + WIFI_CHECK_INTERVAL THEN from
                      ELSE lastWifiCheck + period
         IN first + ((last - first) \div period) * period

\* dt / 50 consecutive passes of loop() in which no button is pressed and
\* neither timer is due, WiFi being connected or not throughout: only
\* handleBuzzer and the WiFi check act
Sleep(dt, wifiUp) ==
    /\ passes < MaxPasses
    /\ dt >= LOOP_DELAY
    /\ LET last == millis + dt - LOOP_DELAY IN
       /\ edge.waitingForSecondPress
             => last - edge.lastButton1SinglePress < DOUBLE_PRESS_WINDOW
       /\ edge.isConfigured
             => IF wifiUp
                THEN /\ edge.configFetched
                     /\ last - edge.lastConfigFetch < CONFIG_FETCH_INTERVAL
                     /\ last - edge.lastSampleMillis < edge.SAMPLE_INTERVAL_MS
                ELSE last - edge.lastWifiCheck <= WIFI_CHECK_INTERVAL
       /\ edge' = [handleBuzzer(edge, last) EXCEPT
                     !.lastWifiCheck = IF edge.isConfigured /\ wifiUp
                                       THEN WifiCheckedAt(@, millis, last) ELSE @]
       /\ call' = [fn |-> "sleep", at |-> millis, fetches |-> <<>>, evals |-> <<>>,
                   buzzer |-> BuzzerStep(edge, handleBuzzer(edge, last)),
                   lastAttempt |-> call.lastAttempt,
                   prevAttempt |-> call.lastAttempt,
                   choice |-> call.choice]
    /\ millis' = millis + dt
    /\ UNCHANGED <<postCount, readings>>
    /\ passes' = passes + 1

\* how long until the sample timer or the pull timer is due
UntilNextTimer ==
    LET sample == edge.lastSampleMillis + edge.SAMPLE_INTERVAL_MS
        pull == edge.lastConfigFetch + CONFIG_FETCH_INTERVAL
    IN (IF sample < pull THEN sample ELSE pull) - millis

SleepTimes == {250, 450}

\* the state when setup() returns
InitLoop ==
    /\ InitServer /\ configFile = Absent /\ InitMergeIdle /\ InitAnalyticsIdle
    /\ \E configured \in BOOLEAN, in \in LoopEnv :
          LET r == setup(configured, in) IN
          /\ edge = r.e
          /\ millis = r.t
          /\ postCount = Len(r.posted)
          /\ call = [fn |-> "setup", at |-> 0, fetches |-> r.fetches,
                     evals |-> <<>>, buzzer |-> <<>>,
                     lastAttempt |-> LastAttempt(r.fetches, <<>>),
                     prevAttempt |-> <<>>, choice |-> NoChoice]
    /\ passes = 0
    /\ readings = <<>>

NextLoop ==
    \/ \E in \in LoopEnv : Loop(in) /\ UNCHANGED <<serverVars, mergeVars, analyticsVars>>
    \/ \E dt \in SleepTimes \cup {UntilNextTimer}, wifiUp \in BOOLEAN :
          Sleep(dt, wifiUp) /\ UNCHANGED <<serverVars, mergeVars, analyticsVars>>

\* The edge agent's main loop
SpecLoop == InitLoop /\ [][NextLoop]_vars

(***************************************************************************)
(* The edge agent's history under readings and configuration pulls        *)
(***************************************************************************)
\* horizon: the number of calls of processSensorData and fetchConfig
MaxHistorySteps == 7

HistorySamples == {<<6, 92>>, <<10, 92>>}
\* a partial update that sets another history size
UpdHistoryFive == Obj([dataCollection |-> Obj([historySize |-> Num(5)])])
HistoryBodies ==
    <<deepMerge(getDefaultConfig, UpdHistory), deepMerge(getDefaultConfig, UpdHistoryFive)>>

\* processSensorData() called from loop(), WiFi connected and the server
\* answering 200
Reading(temp, hum) ==
    /\ millis < MaxHistorySteps
    /\ LET r == processSensorData(edge, millis, temp, hum, 120, TRUE, TRUE) IN
       /\ edge' = r.e
       /\ call' = [fn |-> "processSensorData", temp |-> temp, hum |-> hum,
                   ret |-> r.ret,
                   payload |-> IF r.ret = "sensor_error" THEN Null ELSE r.payload,
                   posted |-> r.posted]
       /\ postCount' = postCount + r.posts
       /\ readings' = IF r.ret = "sensor_error" THEN readings
                      ELSE Append(readings, [temp |-> temp, hum |-> hum,
                                             size |-> edge.HISTORY_SIZE,
                                             slot |-> edge.historyIndex])
    /\ millis' = millis + 1
    /\ UNCHANGED passes

\* fetchConfig() called from loop(), WiFi connected and the server answering
\* 200 with the document HistoryBodies[body]
Pull(body) ==
    /\ millis < MaxHistorySteps
    /\ LET r == fetchConfig(edge, TRUE, 200, HistoryBodies[body]) IN
       /\ edge' = r.e
       /\ call' = [fn |-> "fetchConfig", wifiUp |-> TRUE, httpCode |-> 200,
                   body |-> body, ret |-> r.ret]
    /\ millis' = millis + 1
    /\ UNCHANGED <<postCount, passes, readings>>

InitHistory ==
    /\ InitServer /\ configFile = Absent /\ InitMergeIdle /\ InitAnalyticsIdle
    /\ InitEdgeVars

NextHistory ==
    \/ \E s \in HistorySamples :
          Reading(s[1], s[2]) /\ UNCHANGED <<serverVars, mergeVars, analyticsVars>>
    \/ \E body \in DOMAIN HistoryBodies :
          Pull(body) /\ UNCHANGED <<serverVars, mergeVars, analyticsVars>>

SpecHistory == InitHistory /\ [][NextHistory]_vars

(***************************************************************************)
(* The two places where a trend is computed: analyzeTrends on the edge    *)
(* agent and /api/trends on the aggregation service.  The configurations  *)
(* the agent pulls and the rows the service queries are drawn freely, so  *)
(* the two share no variable and their steps commute: the behaviours in   *)
(* which only one of the two takes steps contain every step of both.      *)
(***************************************************************************)
NextTrendData ==
    \/ /\ trendsPending = 0 /\ trendsRes = NoTrendsResponse
       /\ NextHistory
    \/ /\ millis = 0
       /\ GetTrends /\ UNCHANGED <<mergeVars, analyticsVars, edgeVars>>
    \/ /\ millis = 0
       /\ \E err \in BOOLEAN, rows \in RowWindows :
             TrendsCallback(err, rows) /\ UNCHANGED <<mergeVars, analyticsVars, edgeVars>>

SpecTrendData == InitHistory /\ [][NextTrendData]_vars

Init ==
    /\ InitServer /\ configFile = Absent /\ InitMergeIdle /\ InitAnalyticsIdle
    /\ InitEdgeVars

Next ==
    \/ \E s \in Samples, mq \in MqValues, wifiUp \in BOOLEAN, httpOk \in BOOLEAN :
          ProcessSensorData(s[1], s[2], mq, wifiUp, httpOk)
          /\ UNCHANGED <<serverVars, mergeVars, analyticsVars>>
    \/ \E body \in ServedConfigs \cup {Unparsable}, wifiUp \in BOOLEAN, httpCode \in HttpCodes :
          FetchConfig(wifiUp, httpCode, body)
          /\ UNCHANGED <<serverVars, mergeVars, analyticsVars>>

\* The edge agent
Spec == Init /\ [][Next]_vars

(***************************************************************************)
(* Claims about the configuration API                                     *)
(***************************************************************************)
\* the messages of the validation checks that fail on config
FailedMessages(config) ==
    {c[2] : c \in {x \in {
        <<TempIdealError(config), "Temperature idealMin must be less than idealMax">>,
        <<TempCriticalError(config), "Temperature criticalMin must be less than criticalMax">>,
        <<HumIdealError(config), "Humidity idealMin must be less than idealMax">>,
        <<HumRangeError(config), "Humidity values must be between 0 and 100">>,
        <<RiskOrderError(config), "Spoilage risk thresholds must be in ascending order">>,
        <<BuzzerDurationError(config), "Buzzer duration must be positive">>,
        <<CriticalRiskError(config), "Critical risk threshold must be between 0 and 100">>,
        <<SampleIntervalError(config), "Sample interval must be at least 1000ms">>,
        <<AutoRefreshError(config), "Auto refresh interval must be at least 1000ms">>,
        <<RetentionError(config), "Data retention must be at least 1 day">>} : x[1]}}

\* C6: a PUT /api/config whose merged document fails a validation check is
\* answered 400 and not applied (CONFIG, THRESHOLDS and config.json keep their
\* values), and the response's details hold exactly one entry for every check
\* that failed.
C6_RejectedUpdateNotApplied ==
    [][\A failed \in {IF res'.op = "PUT" /\ res' # res
                       THEN FailedMessages(deepMerge(CONFIG, res'.req)) ELSE {}} :
        failed # {}
        => /\ res'.status = 400
           /\ CONFIG' = CONFIG
           /\ THRESHOLDS' = THRESHOLDS
           /\ configFile' = configFile
           /\ {res'.details[i] : i \in DOMAIN res'.details} = failed
           /\ Len(res'.details) = Cardinality(failed)]_vars

\* C6 witness: an update violating several checks was rejected while a
\* configuration other than the default was in force.
C6_Witness ==
    /\ res.op = "PUT" /\ res.status = 400
    /\ Len(res.details) >= 5
    /\ CONFIG # getDefaultConfig

\* a < b on two fields of a section, both present and numbers
FieldLess(section, a, b) ==
    /\ Get(section, a).t = "num" /\ Get(section, b).t = "num"
    /\ Get(section, a).v < Get(section, b).v

\* a field of a section, when present, is a number in [0,100]
Percentage(section, a) ==
    Get(section, a) = Undefined
    \/ (Get(section, a).t = "num" /\ Get(section, a).v >= 0 /\ Get(section, a).v <= 100)

\* the data-model invariant of a thresholds configuration
DataModelInvariant(config) ==
    /\ \A sec \in {TempSection(config), HumSection(config)} :
          /\ FieldLess(sec, "idealMin", "idealMax")
          /\ FieldLess(sec, "warningMin", "warningMax")
          /\ FieldLess(sec, "criticalMin", "criticalMax")
    /\ FieldLess(RiskSection(config), "low", "medium")
    /\ FieldLess(RiskSection(config), "medium", "high")
    /\ FieldLess(RiskSection(config), "high", "critical")
    /\ \A f \in {"idealMin", "idealMax", "warningMin", "warningMax",
                 "criticalMin", "criticalMax"} : Percentage(HumSection(config), f)
    /\ \A f \in {"low", "medium", "high", "critical"} : Percentage(RiskSection(config), f)
    /\ Percentage(AlertsSection(config), "criticalRiskThreshold")

\* C7: after any sequence of PUT /api/config and POST /api/config/reset from the
\* default configuration, the in-force configuration satisfies the data-model
\* invariant (every min < max pair, risk tiers strictly ascending, percentages
\* in [0,100]).
C7_ConfigKeepsDataModelInvariant == DataModelInvariant(CONFIG)

RECURSIVE GetPath(_, _)
GetPath(doc, path) ==
    IF path = <<>> THEN doc ELSE GetPath(Get(doc, Head(path)), Tail(path))

\* the key paths of a document that lead to a value that is not an object
RECURSIVE LeafPaths(_)
LeafPaths(doc) ==
    UNION {IF isObject(doc.v[k])
           THEN {<<k>> \o q : q \in LeafPaths(doc.v[k])}
           ELSE {<<k>>} : k \in DOMAIN doc.v}

\* the update gives a value at path or at a prefix of it
GivenBy(source, path) ==
    \E n \in 1..Len(path) :
        LET q == SubSeq(path, 1, n) IN
        /\ GetPath(source, q) # Undefined
        /\ (n = Len(path) \/ ~isObject(GetPath(source, q)))

\* C8: deepMerge is a deep merge by key: every key path the update gives has
\* the update's value in the result, every key path of the prior document the
\* update does not give keeps its prior value, and the prior document is not
\* changed.
C8_DeepMergeByKey ==
    [][(mDone' /\ ~mDone)
        => /\ \A p \in LeafPaths(mSource) : GetPath(mOutput', p) = GetPath(mSource, p)
           /\ \A p \in LeafPaths(mTarget) :
                 ~GivenBy(mSource, p) => GetPath(mOutput', p) = GetPath(mTarget, p)
           /\ mTarget' = mTarget]_vars
(***************************************************************************)
(* Claims about the edge agent                                            *)
(***************************************************************************)
\* the step is a call of processSensorData that read the sensors successfully
Evaluated == /\ millis' # millis
             /\ call'.fn = "processSensorData"
             /\ call'.ret # "sensor_error"

\* the risk score of the evaluation, in tenths
EvalRisk == call'.payload.spoilageRisk

\* C1: alarm dead band: an evaluation whose risk is above the stop threshold
\* and not above the trigger threshold leaves the alarm state as it was.
C1_DeadBand ==
    [][(Evaluated /\ EvalRisk > edge.ALARM_STOP_THRESHOLD * 10
                  /\ EvalRisk <= edge.ALARM_TRIGGER_THRESHOLD * 10)
        => /\ edge'.alarmActive = edge.alarmActive
           /\ edge'.alarmStartTime = edge.alarmStartTime]_vars

\* C1 witness: the alarm, raised by an earlier evaluation, is still Active
\* after an evaluation with a risk inside the dead band.
C1_Witness ==
    /\ call.fn = "processSensorData" /\ call.ret # "sensor_error"
    /\ call.payload.spoilageRisk > edge.ALARM_STOP_THRESHOLD * 10
    /\ call.payload.spoilageRisk <= edge.ALARM_TRIGGER_THRESHOLD * 10
    /\ edge.alarmActive
    /\ edge.alarmStartTime + 2 < millis

\* C2: an evaluation with risk above the trigger threshold that starts Idle
\* ends Active; one with risk at or below the stop threshold that starts
\* Active ends Idle; and no evaluation does both (the alarm is started only
\* by an evaluation that ends Active having begun Idle).
C2_AlarmTransitions ==
    [][Evaluated
        => /\ (EvalRisk > edge.ALARM_TRIGGER_THRESHOLD * 10 /\ ~edge.alarmActive)
                => (edge'.alarmActive /\ edge'.alarmStartTime = millis)
           /\ (EvalRisk <= edge.ALARM_STOP_THRESHOLD * 10 /\ edge.alarmActive)
                => ~edge'.alarmActive
           /\ (edge'.alarmActive = edge.alarmActive)
                => edge'.alarmStartTime = edge.alarmStartTime]_vars

\* C2 witness: three evaluations under the initial thresholds, high, low and
\* high risk: the alarm cleared by the second is Active again after the third.
C2_Witness ==
    /\ millis = 3 /\ ~edge.configFetched
    /\ edge.tempHistory[0] = 20 /\ edge.tempHistory[1] = 6 /\ edge.tempHistory[2] = 20
    /\ edge.historyIndex = 3
    /\ edge.alarmActive /\ edge.alarmStartTime = 2

\* C3: the stop threshold is always the trigger threshold minus 20, hence
\* strictly below it.
C3_StopBelowTrigger ==
    /\ edge.ALARM_STOP_THRESHOLD = edge.ALARM_TRIGGER_THRESHOLD - 20
    /\ edge.ALARM_STOP_THRESHOLD < edge.ALARM_TRIGGER_THRESHOLD

\* C3 witness: a trigger threshold of 10 was pulled, and the last call was a
\* successful pull of a document without an alerts section.
C3_Witness ==
    /\ call.fn = "fetchConfig" /\ call.ret
    /\ ~isObject(Get(call.body, "alerts"))
    /\ edge.ALARM_TRIGGER_THRESHOLD = 10

DefaultRiskThresholds(e) ==
    /\ e.TEMP_IDEAL_MIN = 4 /\ e.TEMP_IDEAL_MAX = 8 /\ e.TEMP_WARNING_MAX = 12
    /\ e.TEMP_CRITICAL_MIN = 2 /\ e.TEMP_CRITICAL_MAX = 15
    /\ e.HUM_IDEAL_MAX = 95 /\ e.HUM_WARNING_MIN = 85 /\ e.HUM_CRITICAL_MAX = 100
    /\ e.DEW_POINT_DIFF = 2

\* C4: under the thresholds the agent holds, calculateSpoilageRisk is within
\* [0,100] for every temperature and humidity, and is exactly 100 at T=200,
\* RH=200 under the default thresholds.
C4_RiskInRange ==
    /\ \A temp \in Temps, hum \in Hums :
          /\ calculateSpoilageRisk(edge, temp, hum) >= 0
          /\ calculateSpoilageRisk(edge, temp, hum) <= 1000
    /\ DefaultRiskThresholds(edge) => calculateSpoilageRisk(edge, 200, 200) = 1000
    /\ (call.fn = "processSensorData" /\ call.ret # "sensor_error")
          => (call.payload.spoilageRisk >= 0 /\ call.payload.spoilageRisk <= 1000)

\* C4 witness: under pulled thresholds far from the defaults an evaluation
\* scored a reading whose terms sum to more than 100, and reported 100.
C4_Witness ==
    /\ call.fn = "processSensorData" /\ call.ret # "sensor_error"
    /\ edge.configFetched /\ edge.TEMP_WARNING_MAX = -100
    /\ call.temp = 6 /\ call.hum = 84
    /\ call.payload.spoilageRisk = 1000

HealthRank(health) ==
    CASE health = "GOOD" -> 0
      [] health = "CAUTION" -> 1
      [] health = "WARNING" -> 2
      [] health = "CRITICAL" -> 3

\* risk scores (tenths) at, just below and just above every tier, and the ends
\* of the scale
TierScores(e) ==
    {0, 1000} \cup {tier * 10 + d : tier \in {e.RISK_LOW, e.RISK_MEDIUM, e.RISK_HIGH},
                                    d \in {-1, 0, 1, 5}}

\* C5: with ascending tiers, determineGrainHealth is monotonic: a higher risk
\* score never gets a lower classification.
C5_HealthMonotonic ==
    (edge.RISK_LOW < edge.RISK_MEDIUM /\ edge.RISK_MEDIUM < edge.RISK_HIGH)
    => \A r1 \in TierScores(edge), r2 \in TierScores(edge) :
          r1 <= r2 => HealthRank(determineGrainHealth(edge, r1))
                        <= HealthRank(determineGrainHealth(edge, r2))

\* C5 witness: with the pulled tier high = 60, an evaluation classified a risk
\* of 70.0 as CRITICAL.
C5_Witness ==
    /\ call.fn = "processSensorData" /\ call.ret # "sensor_error"
    /\ edge.RISK_HIGH = 60
    /\ call.payload.spoilageRisk = 700
    /\ call.payload.grainHealth = "CRITICAL"

\* the configuration values fetchConfig caches
CachedConfig(e) ==
    <<e.TEMP_IDEAL_MIN, e.TEMP_IDEAL_MAX, e.TEMP_WARNING_MIN, e.TEMP_WARNING_MAX,
      e.TEMP_CRITICAL_MIN, e.TEMP_CRITICAL_MAX,
      e.HUM_IDEAL_MIN, e.HUM_IDEAL_MAX, e.HUM_WARNING_MIN, e.HUM_WARNING_MAX,
      e.HUM_CRITICAL_MIN, e.HUM_CRITICAL_MAX,
      e.AIR_QUALITY_GOOD, e.AIR_QUALITY_MODERATE, e.AIR_QUALITY_POOR,
      e.AIR_QUALITY_CRITICAL,
      e.RISK_LOW, e.RISK_MEDIUM, e.RISK_HIGH, e.RISK_CRITICAL, e.DEW_POINT_DIFF,
      e.buzzerEnabled, e.ALARM_DURATION,
      e.ALARM_TRIGGER_THRESHOLD, e.ALARM_STOP_THRESHOLD,
      e.SAMPLE_INTERVAL_MS, e.HISTORY_SIZE>>

\* C9: a configuration pull that fails (WiFi down, HTTP status other than 200,
\* unparsable body) returns false and leaves every cached configuration value
\* unchanged.
C9_FailedPullKeepsConfig ==
    [][(millis' # millis /\ call'.fn = "fetchConfig"
          /\ (~call'.wifiUp \/ call'.httpCode # 200 \/ call'.body = Unparsable))
        => /\ ~call'.ret
           /\ CachedConfig(edge') = CachedConfig(edge)]_vars

\* C9 witness: after a trigger threshold of 10 was pulled, a pull answered
\* HTTP 404 with another document in its body failed.
C9_Witness ==
    /\ call.fn = "fetchConfig" /\ ~call.ret
    /\ call.wifiUp /\ call.httpCode = 404 /\ call.body = getDefaultConfig
    /\ edge.configFetched /\ edge.ALARM_TRIGGER_THRESHOLD = 10

\* C10: when the sensor read fails (temperature or humidity NaN) the cycle is
\* skipped: history window and alarm state are unchanged and nothing is sent.
C10_SensorErrorSkipsCycle ==
    [][(millis' # millis /\ call'.fn = "processSensorData"
          /\ (isnan(call'.temp) \/ isnan(call'.hum)))
        => /\ edge'.tempHistory = edge.tempHistory
           /\ edge'.humHistory = edge.humHistory
           /\ edge'.historyIndex = edge.historyIndex
           /\ edge'.historyFilled = edge.historyFilled
           /\ edge'.alarmActive = edge.alarmActive
           /\ edge'.alarmStartTime = edge.alarmStartTime
           /\ postCount' = postCount
           /\ call'.ret = "sensor_error"]_vars

\* C10 witness: a read failed on the humidity while the window held readings
\* and the alarm was Active.
C10_Witness ==
    /\ call.fn = "processSensorData" /\ call.ret = "sensor_error"
    /\ isnan(call.hum) /\ ~isnan(call.temp)
    /\ edge.historyIndex >= 2 /\ edge.alarmActive /\ postCount >= 1
\* C11: a delivery that fails is dropped: an evaluation cycle makes at most one
\* delivery attempt, what it sends is the reading of that cycle, and when the
\* delivery fails the reading is still appended to the history window and the
\* alarm still follows the risk.
C11_FailedDeliveryDropped ==
    [][(millis' # millis /\ call'.fn = "processSensorData")
        => /\ postCount' - postCount <= 1
           /\ postCount' - postCount = Len(call'.posted)
           /\ \A i \in DOMAIN call'.posted :
                 /\ call'.posted[i] = call'.payload
                 /\ call'.posted[i].temperature = call'.temp
                 /\ call'.posted[i].humidity = call'.hum
           /\ call'.ret = "not_sent"
                => /\ edge'.tempHistory[edge.historyIndex] = call'.temp
                   /\ edge'.humHistory[edge.historyIndex] = call'.hum
                   /\ edge'.historyIndex = (edge.historyIndex + 1) % edge.HISTORY_SIZE
                   /\ (EvalRisk > edge.ALARM_TRIGGER_THRESHOLD * 10 /\ ~edge.alarmActive)
                        => edge'.alarmActive
                   /\ (EvalRisk <= edge.ALARM_STOP_THRESHOLD * 10 /\ edge.alarmActive)
                        => ~edge'.alarmActive]_vars

\* C11 witness: three cycles of which only the last made a request; it found
\* the server failing, and raised the alarm all the same.
C11_Witness ==
    /\ call.fn = "processSensorData" /\ call.ret = "not_sent"
    /\ Len(call.posted) = 1 /\ postCount = 1
    /\ edge.historyIndex = 3
    /\ edge.alarmActive /\ edge.alarmStartTime = millis - 1
(***************************************************************************)
(* Claims about the edge agent's main loop                                *)
(***************************************************************************)
\* C12: while the alarm is Active and the buzzer is muted, handleBuzzer drives
\* the buzzer LOW and leaves the alarm Active; the alarm goes from Active to
\* Idle only in a step with an evaluation whose risk is at or below the stop
\* threshold.
C12_MutedAlarmStaysActive ==
    [][passes' # passes
        => /\ \A i \in DOMAIN call'.buzzer :
                 (call'.buzzer[i].alarmActive /\ ~call'.buzzer[i].buzzerEnabled)
                     => (call'.buzzer[i].pin = "LOW" /\ call'.buzzer[i].alarmAfter)
           /\ (edge.alarmActive /\ ~edge'.alarmActive)
                 => \E i \in DOMAIN call'.evals :
                       /\ call'.evals[i].ret # "sensor_error"
                       /\ call'.evals[i].risk <= call'.evals[i].stop * 10]_vars

\* C12 witness: the operator muted the buzzer by a double press while the alarm
\* was Active, and handleBuzzer ran in that state.
C12_Witness ==
    /\ call.fn = "loop" /\ call.buzzer # <<>>
    /\ call.buzzer[1].alarmActive /\ ~call.buzzer[1].buzzerEnabled
    /\ edge.alarmActive /\ ~edge.buzzerEnabled

\* C17: a call of fetchConfig that follows a failed one comes no sooner than
\* CONFIG_FETCH_INTERVAL after it.
C17_NoRetryBeforeInterval ==
    \A i \in DOMAIN call.fetches :
        LET prev == IF i = 1 THEN call.prevAttempt ELSE <<call.fetches[i - 1]>> IN
        (prev # <<>> /\ ~prev[1].ret)
            => call.fetches[i].at - prev[1].at >= CONFIG_FETCH_INTERVAL

(***************************************************************************)
(* Claims about the analytics of the aggregation service                  *)
(***************************************************************************)
\* the place of a rule in generatePrioritizedRecommendations, in the order in
\* which the rules are evaluated
RuleOrder(message) ==
    CASE message = "FREEZING TEMPERATURE" -> 1
      [] message = "CRITICAL SPOILAGE RISK" -> 2
      [] message = "Temperature too high" -> 3
      [] message = "Humidity too low" -> 4
      [] message = "Humidity very high" -> 5
      [] message = "Condensation risk" -> 6
      [] message = "Poor air quality" -> 7
      [] message = "Spoilage risk is increasing" -> 8
      [] message = "Conditions optimal" -> 9

\* C13: the list generatePrioritizedRecommendations returns is ordered by
\* priority rank (CRITICAL before HIGH before MEDIUM before LOW), and entries
\* of equal priority are in the order in which their rules are evaluated
C13_RecommendationsSortedStable ==
    (fCall.fn = "generatePrioritizedRecommendations" /\ fRet.called) =>
        \A i \in 1..Len(fRet.value), j \in 1..Len(fRet.value) :
            i < j =>
                /\ priorityOrder(fRet.value[i].priority)
                      <= priorityOrder(fRet.value[j].priority)
                /\ fRet.value[i].priority = fRet.value[j].priority
                      => RuleOrder(fRet.value[i].message) < RuleOrder(fRet.value[j].message)

\* a returned list with two CRITICAL entries, a HIGH entry and three MEDIUM
\* entries
C13_Witness ==
    /\ fCall.fn = "generatePrioritizedRecommendations" /\ fRet.called
    /\ Len(fRet.value) = 6
    /\ \A p \in {"CRITICAL", "MEDIUM"} :
          Cardinality({i \in 1..Len(fRet.value) : fRet.value[i].priority = p}) >= 2

ConfidenceRank(level) ==
    CASE level = "low" -> 0 [] level = "medium" -> 1 [] level = "high" -> 2

\* C14: with the trends and patterns held fixed, the score and the level of
\* calculateConfidenceWithFactors do not decrease when the number of samples
\* increases
C14_ConfidenceMonotonic ==
    (fCall.fn = "calculateConfidenceWithFactors" /\ fRet.called) =>
        \A fewer \in 0..fCall.dataPoints :
            LET less == calculateConfidenceWithFactors(fewer, fCall.trends, fCall.patterns) IN
            /\ less.score <= fRet.value.score
            /\ ConfidenceRank(less.level) <= ConfidenceRank(fRet.value.level)

\* the confidence of more than 20 samples is higher, in score and in level, than
\* that of 10 samples with the same trends and patterns
C14_Witness ==
    /\ fCall.fn = "calculateConfidenceWithFactors" /\ fRet.called
    /\ fCall.dataPoints > 20
    /\ LET less == calculateConfidenceWithFactors(10, fCall.trends, fCall.patterns) IN
       /\ less.score < fRet.value.score
       /\ ConfidenceRank(less.level) < ConfidenceRank(fRet.value.level)

\* C19: for every slope the edge agent's analyzeTrends and the aggregator's
\* getTrendLabel give the same label: RISING_RAPIDLY above 1.0, RISING above
\* 0.3, FALLING_RAPIDLY below -1.0, FALLING below -0.3, STABLE otherwise
C19_SameTrendLabels ==
    (fCall.fn = "getTrendLabel" /\ fRet.called) =>
        LET slope == fCall.trendValue
            label == IF GreaterThan(slope, 10) THEN "RISING_RAPIDLY"
                     ELSE IF GreaterThan(slope, 3) THEN "RISING"
                     ELSE IF LessThan(slope, -10) THEN "FALLING_RAPIDLY"
                     ELSE IF LessThan(slope, -3) THEN "FALLING"
                     ELSE "STABLE"
        IN /\ fRet.value = label
           /\ slopeLabel(slope) = label

(***************************************************************************)
(* Claims about the edge agent's history                                  *)
(***************************************************************************)
\* every reading so far was stored with the capacity now in force
FixedCapacity(e, log) == \A m \in 1..Len(log) : log[m].size = e.HISTORY_SIZE

\* the slots of tempHistory and humHistory that differ between e1 and e2
ChangedSlots(e1, e2) ==
    {i \in 0..(MAX_HISTORY_SIZE - 1) :
        e1.tempHistory[i] # e2.tempHistory[i] \/ e1.humHistory[i] # e2.humHistory[i]}

\* the buffer of capacity n holds the last min(k, n) of the k readings of log:
\* reading m is in slot (m - 1) % n, and the other slots are unwritten
HoldsLast(e, log) ==
    LET n == e.HISTORY_SIZE
        k == Len(log)
    IN /\ \A m \in 1..k :
             m > k - n => /\ e.tempHistory[(m - 1) % n] = log[m].temp
                          /\ e.humHistory[(m - 1) % n] = log[m].hum
       /\ \A i \in 0..(MAX_HISTORY_SIZE - 1) :
             (i >= k \/ i >= n) => e.tempHistory[i] = 0 /\ e.humHistory[i] = 0

\* C16: at a fixed capacity HISTORY_SIZE = n, after k readings the history
\* holds exactly the last min(k, n) of them; each reading writes one slot, and
\* that slot held the oldest reading when the history was full and was unwritten
\* otherwise
C16_RingBuffer ==
    [][(readings' # readings /\ FixedCapacity(edge', readings')) =>
          LET n == edge.HISTORY_SIZE
              k == Len(readings)
              slot == k % n
          IN /\ HoldsLast(edge', readings')
             /\ ChangedSlots(edge, edge') \subseteq {slot}
             /\ edge'.tempHistory[slot] = readings'[k + 1].temp
             /\ IF k >= n
                THEN /\ edge.tempHistory[slot] = readings[k - n + 1].temp
                     /\ edge.humHistory[slot] = readings[k - n + 1].hum
                ELSE edge.tempHistory[slot] = 0 /\ edge.humHistory[slot] = 0]_vars

\* at capacity 3 a fifth reading was stored, the history having wrapped
C16_Witness ==
    /\ FixedCapacity(edge, readings)
    /\ edge.HISTORY_SIZE = 3 /\ Len(readings) = 5
    /\ edge.historyFilled /\ edge.historyIndex = 2
    /\ readings[1].temp # readings[4].temp

\* the temperatures of the last n readings of log, oldest first
ChronologicalWindow(log, n) ==
    [i \in 0..(n - 1) |-> log[Len(log) - n + 1 + i].temp]

\* C18: the slope analyzeTrends classifies is that of the temperatures in the
\* history taken from the oldest to the newest, also after the history has
\* wrapped around
C18_SlopeOldestToNewest ==
    (/\ call.fn = "processSensorData" /\ call.ret # "sensor_error"
     /\ FixedCapacity(edge, readings) /\ Len(readings) >= 3) =>
        LET n == Min(Len(readings), edge.HISTORY_SIZE) IN
        call.payload.trendAnalysis
            = slopeLabel(regressionSlope(ChronologicalWindow(readings, n), n))

(***************************************************************************)
(* Claims about /api/trends                                               *)
(***************************************************************************)
\* C15: whatever the order in which the handlers of PUT /api/config, POST
\* /api/config/reset and /api/trends and the callbacks of the queries run, the
\* thresholds an analytics evaluation reads are all those of one configuration
\* document, the one in force when it runs: never some of the document before
\* an update and some of the document after it
C15_EvaluationReadsOneDocument ==
    [][(trendsPending' < trendsPending /\ trendsRes'.analytics # <<>>) =>
          \A section \in ReadSections :
              trendsRes'.read[1][section] = Get(Get(CONFIG, "thresholds"), section)]_vars

\* with another query still in progress, an evaluation has run after an update
\* of the temperature and humidity sections was accepted, and its summary
\* follows the updated sections
C15_Witness ==
    /\ trendsRes.analytics # <<>>
    /\ trendsRes.read[1]["temperature"] # Get(Get(getDefaultConfig, "thresholds"), "temperature")
    /\ trendsRes.read[1]["humidity"] # Get(Get(getDefaultConfig, "thresholds"), "humidity")
    /\ trendsRes.analytics[1].summary[3] = "HUMIDITY TOO LOW"
    /\ trendsPending > 0
    /\ res.op = "PUT" /\ res.status = 200

TrendLabels == {"RISING_RAPIDLY", "RISING", "FALLING_RAPIDLY", "FALLING", "STABLE"}

\* C20: whatever readings and pulls (changing HISTORY_SIZE) came before,
\* analyzeTrends returns INSUFFICIENT_DATA or NEED_MORE_DATA while fewer than 3
\* readings have been recorded and one of the five trend labels from the third
\* reading on; /api/trends answers INSUFFICIENT_DATA, without running the
\* analytics, whenever the query returns fewer than 3 rows
C20_InsufficientDataDefined ==
    [][/\ readings' # readings =>
             IF Len(readings') < 3
             THEN call'.payload.trendAnalysis \in {"INSUFFICIENT_DATA", "NEED_MORE_DATA"}
             ELSE call'.payload.trendAnalysis \in TrendLabels
       /\ (trendsPending' < trendsPending /\ trendsRes'.status = 200
             /\ trendsRes'.rows < 3) =>
             /\ trendsRes'.json = "INSUFFICIENT_DATA"
             /\ trendsRes'.analytics = <<>>]_vars

\* C21: the gas-decline pattern of an evaluation is detected exactly when the
\* window holds at least 4 samples and the latest gas reading exceeds
\* thresholds.airQuality.poor of the configuration the evaluation read
C21_GasDeclineFollowsPoor ==
    trendsRes.json = "analytics" =>
        LET a == trendsRes.analytics[1]
            poor == Get(trendsRes.read[1].airQuality, "poor")
        IN a.patterns.airQualityDecline
              = (Min(trendsRes.rows, 10) >= 4
                    /\ JsGT(Num(a.metrics.current.mq135), poor))

\* C22: for every latest risk in 0..100 and every change since the previous
\* row, generateDashboardAnalytics predicts clamp(latest + 6 * change, 0, 100),
\* which lies in 0..100; timeToCritical is null exactly when the change is
\* <= 0, and otherwise the whole number max(1, round((70 - latest) / change)),
\* at least 1
C22_PredictorOutputs ==
    (fCall.fn = "generateDashboardAnalytics" /\ fRet.called) =>
        LET latest == fCall.rows[3].spoilageRisk
            change == latest - fCall.rows[2].spoilageRisk
            unclamped == latest + 6 * change
            predicted == fRet.value.predictions.predictedRisk.v
            ttc == fRet.value.predictions.timeToCritical
        IN /\ predicted.sign = "" /\ predicted.whole \in 0..100
           /\ predicted.whole = IF unclamped < 0 THEN 0
                                ELSE IF unclamped > 100 THEN 100 ELSE unclamped
           /\ (ttc = Null) <=> (change <= 0)
           /\ change > 0 =>
                 /\ ttc.t = "num" /\ ttc.v \in Nat /\ ttc.v >= 1
                 /\ IF 2 * (70 - latest) < 3 * change
                    THEN ttc.v = 1
                    ELSE /\ (2 * ttc.v - 1) * change <= 2 * (70 - latest)
                         /\ 2 * (70 - latest) < (2 * ttc.v + 1) * change

\* a rising risk whose prediction is clamped at 100 and whose time to the
\* critical level is a rounded quotient above 1
C22_Witness ==
    /\ fCall.fn = "generateDashboardAnalytics" /\ fRet.called
    /\ fCall.rows[3].spoilageRisk = 55 /\ fCall.rows[2].spoilageRisk = 45
    /\ fRet.value.predictions.predictedRisk.v.whole = 100
    /\ fRet.value.predictions.timeToCritical = Num(2)

\* the additive penalty model in tenths of a percent: each term, the
\* thresholds th being those the agent holds
HighTemperatureTerm(th, T) ==
    IF T > th.TEMP_CRITICAL_MAX THEN (T - th.TEMP_CRITICAL_MAX) * 40
    ELSE IF T > th.TEMP_WARNING_MAX THEN (T - th.TEMP_WARNING_MAX) * 20 ELSE 0
LowTemperatureTerm(th, T) ==
    IF T < th.TEMP_CRITICAL_MIN THEN (th.TEMP_CRITICAL_MIN - T) * 30
    ELSE IF T < th.TEMP_IDEAL_MIN THEN 100 ELSE 0
LowHumidityTerm(th, RH) ==
    IF RH < th.HUM_WARNING_MIN THEN (th.HUM_WARNING_MIN - RH) * 20 ELSE 0
HighHumidityTerm(th, RH) ==
    IF RH > th.HUM_CRITICAL_MAX THEN (RH - th.HUM_CRITICAL_MAX) * 50
    ELSE IF RH > th.HUM_IDEAL_MAX THEN (RH - th.HUM_IDEAL_MAX) * 20 ELSE 0
CondensationTerm(th, T, RH) ==
    IF ~DewPointIsNaN(T, RH) /\ calculateDewPoint(T, RH) > (T - th.DEW_POINT_DIFF) * 10
    THEN 400 ELSE 0
SproutingTerm(th, T) ==
    IF T > th.TEMP_IDEAL_MAX THEN (T - th.TEMP_IDEAL_MAX) * 15 ELSE 0
AdditiveModel(th, T, RH) ==
    LET sum == HighTemperatureTerm(th, T) + LowTemperatureTerm(th, T)
               + LowHumidityTerm(th, RH) + HighHumidityTerm(th, RH)
               + CondensationTerm(th, T, RH) + SproutingTerm(th, T)
    IN IF sum < 0 THEN 0 ELSE IF sum > 1000 THEN 1000 ELSE sum

\* C23: under every set of thresholds the agent holds, calculateSpoilageRisk
\* is the additive model (the six terms summed, then clamped to 0..100) for
\* every temperature and humidity, and the risk an evaluation reports is the
\* model's value for its reading under the thresholds then held
C23_RiskIsAdditiveModel ==
    /\ \A T \in Temps, RH \in Hums :
          calculateSpoilageRisk(edge, T, RH) = AdditiveModel(edge, T, RH)
    /\ (call.fn = "processSensorData" /\ call.ret # "sensor_error")
          => call.payload.spoilageRisk = AdditiveModel(edge, call.temp, call.hum)

\* an evaluation under pulled thresholds in which four terms contribute:
\* 20 degrees over criticalMax 18, 97 % over idealMax 95, the dew point
\* within 1 degree, and 12 degrees over idealMax 8: 8 + 4 + 40 + 18 = 70
C23_Witness ==
    /\ call.fn = "processSensorData" /\ call.ret # "sensor_error"
    /\ call.temp = 20 /\ call.hum = 97
    /\ edge.configFetched /\ edge.TEMP_CRITICAL_MAX = 18 /\ edge.DEW_POINT_DIFF = 1
    /\ call.payload.spoilageRisk = 700

\* the priorities of the recommendations of an evaluation
Priorities(recommendations) ==
    {recommendations[i].priority : i \in 1..Len(recommendations)}

\* C24: in every evaluation, a latest reading whose risk exceeds
\* thresholds.spoilageRisk.high of the configuration in force gets a CRITICAL
\* recommendation, and one whose temperature exceeds
\* thresholds.temperature.idealMax gets a HIGH recommendation
C24_RulesFollowThresholds ==
    trendsRes.json = "analytics" =>
        LET a == trendsRes.analytics[1]
            high == Get(trendsRes.read[1].spoilageRisk, "high")
            idealMax == Get(trendsRes.read[1].temperature, "idealMax")
        IN /\ JsGT(Num(a.metrics.current.spoilageRisk), high)
                 => "CRITICAL" \in Priorities(a.recommendations)
           /\ JsGT(Num(a.metrics.current.temperature), idealMax)
                 => "HIGH" \in Priorities(a.recommendations)

\* the alarm state (Active or Idle, and the time the alarm started) after one
\* sensor evaluation, from the risk score and the trigger and stop
\* thresholds held at that time alone
AlarmAfterEvaluation(alarm, eval) ==
    IF eval.ret = "sensor_error" THEN alarm
    ELSE LET started == IF eval.risk > eval.trigger * 10 /\ ~alarm.alarmActive
                        THEN [alarmActive |-> TRUE, alarmStartTime |-> eval.at]
                        ELSE alarm
         IN IF eval.risk <= eval.stop * 10 /\ started.alarmActive
            THEN [started EXCEPT !.alarmActive = FALSE]
            ELSE started

RECURSIVE AlarmAfterEvaluations(_, _)
AlarmAfterEvaluations(alarm, evals) ==
    IF evals = <<>> THEN alarm
    ELSE AlarmAfterEvaluations(AlarmAfterEvaluation(alarm, Head(evals)), Tail(evals))

AlarmState(e) == [alarmActive |-> e.alarmActive, alarmStartTime |-> e.alarmStartTime]

\* C25: over every step of the main loop, alarmActive and alarmStartTime
\* change only by the sensor evaluations of the step, each as a function of
\* its risk score against the trigger and stop thresholds: a step without an
\* evaluation (configuration pulls, button handling, handleBuzzer, WiFi
\* checks) leaves both unchanged, and alarmStartTime is set only when an
\* evaluation takes the alarm from Idle to Active
C25_AlarmChangesOnlyInEvaluation ==
    [][passes' # passes
        => /\ AlarmState(edge') = AlarmAfterEvaluations(AlarmState(edge), call'.evals)
           /\ call'.evals = <<>> => AlarmState(edge') = AlarmState(edge)
           /\ edge'.alarmStartTime # edge.alarmStartTime
                 => \E i \in DOMAIN call'.evals :
                       /\ call'.evals[i].ret # "sensor_error"
                       /\ call'.evals[i].risk > call'.evals[i].trigger * 10
                       /\ edge'.alarmStartTime = call'.evals[i].at]_vars

\* a pass of loop() with the alarm Active in which handleBuzzer ran and a
\* configuration pull set the trigger threshold to 10 and the stop threshold
\* to -10, without an evaluation
C25_Witness ==
    /\ call.fn = "loop" /\ call.evals = <<>>
    /\ call.fetches # <<>> /\ call.fetches[Len(call.fetches)].ret
    /\ call.buzzer # <<>> /\ call.buzzer[1].alarmActive
    /\ edge.alarmActive /\ edge.ALARM_TRIGGER_THRESHOLD = 10

\* C26: in every evaluation the confidence of the prediction is the
\* confidence level computed for that evaluation
C26_PredictionConfidenceDelegates ==
    trendsRes.json = "analytics" =>
        trendsRes.analytics[1].predictions.confidence
            = trendsRes.analytics[1].confidence.level

\* the slots updateHistory has written so far
WrittenSlots(log) == {log[m].slot : m \in 1..Len(log)}

\* C27: whatever readings and pulls (changing HISTORY_SIZE) came before, every
\* slot updateHistory writes and every slot analyzeTrends or generatePredictions
\* reads in an evaluation is an index of the arrays, and every slot read is
\* inside the window 0 .. HISTORY_SIZE - 1 and holds a reading that was stored
C27_HistoryReadsStoredReadings ==
    (call.fn = "processSensorData" /\ call.ret # "sensor_error") =>
        /\ readings[Len(readings)].slot \in 0..(MAX_HISTORY_SIZE - 1)
        /\ \A i \in analyzeTrendsReads(edge) \cup generatePredictionsReads(edge) :
              /\ i \in 0..(MAX_HISTORY_SIZE - 1)
              /\ i \in 0..(edge.HISTORY_SIZE - 1)
              /\ i \in WrittenSlots(readings)

\* C28: after any sequence of PUT /api/config (accepted, rejected or failing
\* to save) and POST /api/config/reset, the THRESHOLDS object the analytics
\* read has the same keys as CONFIG.thresholds and the same value under each
C28_ThresholdsEqualConfig ==
    res.op \in {"PUT", "RESET"} => THRESHOLDS = Get(CONFIG, "thresholds")

\* C29: once the operator has toggled buzzerEnabled by a double press,
\* buzzerEnabled keeps the value of that toggle through every later
\* configuration pull and sensor evaluation, until the next double press
C29_BuzzerChoiceSurvivesPulls ==
    (call.fn \in {"loop", "sleep"} /\ call.choice.made) =>
        edge.buzzerEnabled = call.choice.value

(***************************************************************************)
(* The alarm of the edge agent under the alert thresholds the aggregation *)
(* service accepts, with loop() sampling for ever                         *)
(***************************************************************************)
\* millis() is an unsigned long of 32 bits: counted here in units of 2^31 ms,
\* the time between two calls made from loop(), it wraps at 2
UnsignedLongRange == 2

\* values sent as alerts.criticalRiskThreshold to PUT /api/config
AlarmTriggers == {-5, 0, 10, 20, 70, 100, 101}
\* storage without any risk term (risk 0) and hot, wet storage (risk 82)
AlarmSamples == {<<6, 86>>, <<20, 97>>}

\* the document PUT /api/config would save for this trigger, with a history
\* of three readings
AlarmBody(trigger) ==
    deepMerge(getDefaultConfig,
              Obj([alerts |-> Obj([criticalRiskThreshold |-> Num(trigger)]),
                   dataCollection |-> Obj([historySize |-> Num(3)])]))

\* the triggers validateConfig accepts
AcceptedTriggers == {trigger \in AlarmTriggers : validateConfig(AlarmBody(trigger)).valid}

\* fetchConfig() called from loop(): the service serves a document it accepted
AlarmPull(trigger) ==
    /\ trigger \in AcceptedTriggers
    /\ LET r == fetchConfig(edge, TRUE, 200, AlarmBody(trigger)) IN
       /\ edge' = r.e
       /\ call' = [fn |-> "fetchConfig", trigger |-> trigger, ret |-> r.ret,
                   lastRisk |-> call.lastRisk]
    /\ millis' = (millis + 1) % UnsignedLongRange
    /\ UNCHANGED <<postCount, passes, readings>>

\* processSensorData() called from loop() while the WiFi is down (nothing
\* is posted)
AlarmEvaluate(temp, hum) ==
    /\ \E r \in {processSensorData(edge, millis, temp, hum, 120, FALSE, FALSE)} :
       /\ edge' = r.e
       /\ call' = [fn |-> "processSensorData", temp |-> temp, hum |-> hum,
                   ret |-> r.ret, lastRisk |-> Returned(r.payload.spoilageRisk)]
    /\ millis' = (millis + 1) % UnsignedLongRange
    /\ UNCHANGED <<postCount, passes, readings>>

\* the state when setup() returns after a successful pull
InitAlarm ==
    /\ InitServer /\ configFile = Absent /\ InitMergeIdle /\ InitAnalyticsIdle
    /\ \E trigger \in AcceptedTriggers :
          edge = fetchConfig(InitEdge, TRUE, 200, AlarmBody(trigger)).e
    /\ millis = 0
    /\ call = [fn |-> "setup", lastRisk |-> NotCalled]
    /\ postCount = 0
    /\ passes = 0
    /\ readings = <<>>

EvaluateAlarm ==
    \E s \in AlarmSamples :
        AlarmEvaluate(s[1], s[2]) /\ UNCHANGED <<serverVars, mergeVars, analyticsVars>>

NextAlarm ==
    \/ EvaluateAlarm
    \/ \E trigger \in AlarmTriggers :
          AlarmPull(trigger) /\ UNCHANGED <<serverVars, mergeVars, analyticsVars>>

\* loop() never stops sampling: processSensorData is called again and again
SpecAlarm == InitAlarm /\ [][NextAlarm]_vars /\ WF_vars(EvaluateAlarm)

\* C30: whatever alert thresholds the agent has pulled from those the service
\* accepts, if from some evaluation on every risk score is 0 then the alarm
\* is eventually Idle and stays Idle
C30_AlarmEventuallyClears ==
    (<>[](call.lastRisk = Returned(0))) => <>[](~edge.alarmActive)

====
